---- MODULE Spec2Model ----
(***************************************************************************)
(* Hidden-endpoint acquisition pipeline of src/API.py: the retry loop of   *)
(* SeleniumDriverAPI.fetch_api, the pagination loops of PyktokAPI.get_*,   *)
(* the last-good cache and the merge/dedup persistence of save_*_csv.      *)
(* One facade drives one execution context sequentially; the platform's    *)
(* answers are the nondeterministic inputs of the actions.                 *)
(***************************************************************************)
EXTENDS Integers, Sequences, FiniteSets, TLC

VARIABLES
  pc,          \* position of the facade: "idle", "info", "loop", "out", "search", "sout", "ret"
  op,          \* operation in progress (a get_* method name, "none" when idle)
  count,       \* the caller's target count
  videos,      \* accumulator of the listing loop (videos / comments)
  cursor,      \* cursor of the listing loop
  failures,    \* consecutive_failures (user videos) / blocked_retries (hashtag)
  caller,      \* who runs search_videos: "top", "fb1" (query '#tag'), "fb2" (query 'tag')
  svideos,     \* accumulator of search_videos
  scursor,     \* cursor of search_videos
  result,      \* value returned by the get_* method
  outcome,     \* how the last operation ended: "none", "returned", "raised"
  fpc,         \* position inside fetch_api: "none", "start", "sign", "attempt", "ret"
  fkey,        \* endpoint_key of the fetch_api call
  freq,        \* cursor value sent with the fetch_api call
  attempt,     \* loop variable `attempt` of fetch_api (both for-loops use it)
  fres,        \* value returned by fetch_api
  params,      \* SeleniumDriverAPI._hidden_api_session_params (0 = None)
  cache,       \* PyktokAPI._last_ok
  files,       \* the CSV files on disk, by file name
  attemptsMade, \* iterations of the retry loop begun by the current fetch_api call; each
               \* issues one network call (_do_fetch), none if an exception comes first
  delays,      \* retry delays slept by the current fetch_api call
  navs,        \* recovery navigations made by the current fetch_api call
  empties,     \* attempts of the current fetch_api call that saw an empty/short body
  listFetches, \* fetch_api calls to the listing endpoint in this operation (saturating)
  fallbacks,   \* times the search fallback branch was entered in this operation
  searchCalls, \* search_videos calls made by the fallback branch in this operation
  fetched,     \* items of the successfully fetched listing pages, in order, cut at count
  fbItems,     \* items returned by the search fallback of this operation
  invalidated, \* the last step set the memoized session parameters to None
  queried,     \* the last step asked the execution context for the client properties
  lastKind,    \* what the latest attempt of the current fetch_api call met: "none",
               \* "failed", or the class of the answer ("keyed", "status0", "blocked")
  blockedAt,   \* attempt of the current fetch_api call that met the block code (0 = none)
  blockedFirst, \* the first listing request of this operation met the block code at once
  opsDone,     \* operations started so far
  signNav,     \* the latest step of the current fetch_api call was a check that found
               \* no signing capability, followed by its navigation to a content page
  lastCall,    \* the latest finished get_* call: its method, count and returned items
  mfile,       \* merge-and-write: the CSV file the rows are merged into
  mnew,        \* merge-and-write: the rows handed to the latest call
  mcalls,      \* merge-and-write: calls made so far
  mkeys,       \* merge-and-write: keys of all rows handed to the calls so far
  moutcome,    \* merge-and-write: how the latest call ended: "none", "written", "raised"
  scope        \* the part of the program that is followed besides the
               \* operations above, with its state: the life cycle of the
               \* execution context, the request building of fetch_api,
               \* _default_csv_filename, a recovery navigation, a DOM scroll
               \* loop or save_tiktok_multi_page

apiVars == <<pc, op, count, videos, cursor, failures, caller, svideos, scursor,
          result, outcome, fpc, fkey, freq, attempt, fres, params, cache, files,
          attemptsMade, delays, navs, empties, listFetches, fallbacks, searchCalls,
          fetched, fbItems, invalidated, queried, lastKind, blockedAt, blockedFirst, opsDone,
          signNav, lastCall>>

mergeVars == <<mfile, mnew, mcalls, mkeys, moutcome>>

\* The facade's context after _ensure_driver: one instance, start() completed
\* without a cookie jar.
ReadyContext ==
  [spc |-> "idle", sdriver |-> 1, sattempt |-> 0, waits |-> <<>>, tried |-> 0,
   made |-> 1, quits |-> {}, starts |-> 1, sready |-> TRUE, soutcome |-> "started",
   api |-> TRUE, dead |-> {}, nquit |-> 0, quitRaised |-> FALSE,
   steps |-> <<"timeout", "home", "foryou", "profile">>]

\* The life cycle of the execution context: the fields read below.  Where it
\* is not followed, the context is the ready one.
life == IF scope.fn = "_ensure_driver" THEN scope.v ELSE ReadyContext

\* The life cycle l, followed.
Followed(l) == [fn |-> "_ensure_driver", v |-> l]

\* Position inside start(): "idle", "create" (head of an attempt), "post"
spc == life.spc

\* SeleniumDriverAPI.driver: 0 = None, else the number of the instance
sdriver == life.sdriver

\* Loop variable `attempt` of start()
sattempt == life.sattempt

\* Delays (seconds) slept by the current start() call, in order
waits == life.waits

\* Creation attempts made by the current start() call
tried == life.tried

\* Browser instances created so far
made == life.made

\* Instances on which quit() was called
quits == life.quits

\* start() calls made so far
starts == life.starts

\* The owned instance went through the whole of start()
sready == life.sready

\* Latest lifecycle event: "none", "started", "fatal", "raised", "handed",
\* "stopped", "closed", "specified", "died"
soutcome == life.soutcome

\* Module-level `_api` holds a facade
api == life.api

\* Instances whose browser process is no longer usable
dead == life.dead

\* quit() calls made so far
nquit == life.nquit

\* The quit() of the latest stop() raised
quitRaised == life.quitRaised

\* What the latest start() did with the created instance, in order:
\* "timeout" (set_script_timeout), "home", "cookies" (_inject_cookies),
\* "foryou", "profile" (the navigations)
steps == life.steps

pureVars == <<scope>>

vars == <<apiVars, mergeVars, pureVars>>

facadeVars == <<pc, op, count, videos, cursor, failures, caller, svideos, scursor,
                result, outcome, cache, files, listFetches, fallbacks, searchCalls,
                fetched, fbItems, blockedFirst, opsDone>>

(***************************************************************************)
(* Bounds of the model.                                                    *)
(***************************************************************************)
MaxCount == 2
MaxItem == 2
MaxPageLen == 2
MaxCursor == 1
MaxDevice == 1
MaxRuns == 2
MaxListFetches == 2
MaxKey == 2
MaxVal == 2
MaxNewRows == 2
MaxWrites == 3
MaxStarts == 2

Items == 1..MaxItem
Counts == 0..MaxCount
Cursors == 0..MaxCursor
DeviceIds == 1..MaxDevice

(***************************************************************************)
(* Program constants.                                                      *)
(***************************************************************************)
max_sign_attempts == 5
max_retries == 5
MinBodyLen == 10
max_consecutive_failures == 4
max_blocked_retries == 3
max_attempts == 3
BlockCode == 100002
OtherCode == 10101
NoCode == -1

Min(a, b) == IF a < b THEN a ELSE b

(***************************************************************************)
(* Pure helpers.                                                           *)
(***************************************************************************)
\* A slice that is not taken.
TakeAll(s, n) == s

\* Python slice s[:n] for n >= 0.
Take(s, n) == SubSeq(s, 1, Min(n, Len(s)))

\* for item in items: acc.append(item); if len(acc) >= n: break
RECURSIVE AppendUntil(_, _, _)
AppendUntil(acc, items, n) ==
  IF items = <<>> THEN acc
  ELSE LET a == Append(acc, Head(items))
       IN IF Len(a) >= n THEN a ELSE AppendUntil(a, Tail(items), n)

Range(s) == {s[i] : i \in 1..Len(s)}

(***************************************************************************)
(* Responses.  A parsed body is a record: sc is its statusCode (NoCode     *)
(* when the field is missing), lkey the payload key it carries ("none"     *)
(* when it carries none), items the list under that key, hasMore and       *)
(* cursor the continuation fields as the endpoint names them, ident        *)
(* whether the detail payload holds a non-empty identifier (secUid,        *)
(* challenge id).  NoneBody is Python's None.                              *)
(***************************************************************************)
NoneBody == [none |-> TRUE, sc |-> NoCode, lkey |-> "none", items |-> <<>>,
             hasMore |-> FALSE, cursor |-> 0, ident |-> FALSE]

HIDDEN_API_ENDPOINTS ==
  {"user_detail", "user_videos", "hashtag_detail", "hashtag_videos", "video_comments",
   "search_general", "sound_videos", "playlist_videos"}

_expected_keys(key) ==
  CASE key = "user_detail"    -> {"userInfo"}
    [] key = "hashtag_detail" -> {"challengeInfo"}
    [] key = "video_comments" -> {"comments"}
    [] key = "search_users"   -> {"user_list"}
    [] key = "search_items"   -> {"item_list", "itemList", "data"}
    [] key = "search_general" -> {"data", "item_list", "itemList"}
    [] key = "sound_detail"   -> {"musicInfo", "music"}
    [] key = "playlist_detail" -> {"mixInfo", "mix"}
    [] OTHER                  -> {"itemList"}

DetailEndpoints == {"user_detail", "hashtag_detail"}

\* The payload key a well-formed answer of the endpoint carries, and a key
\* that belongs to another endpoint family.
GoodKey(key) ==
  CASE key = "user_detail"    -> "userInfo"
    [] key = "hashtag_detail" -> "challengeInfo"
    [] key = "video_comments" -> "comments"
    [] key = "search_general" -> "data"
    [] OTHER                  -> "itemList"

WrongKey(key) == IF "itemList" \in _expected_keys(key) THEN "comments" ELSE "itemList"

\* The pages the platform serves: windows of at most MaxPageLen consecutive
\* items of the listing 1..MaxItem.
Pages == {w \in {[i \in 1..n |-> a + i - 1] : a \in Items, n \in 0..MaxPageLen} :
            \A i \in 1..Len(w) : w[i] \in Items}

\* Continuation fields of an answer: a stop flag, or a flag with the next cursor.
Continuations == {<<FALSE, 0>>} \cup {<<TRUE, c>> : c \in Cursors}

\* The parsed bodies the platform can answer a request to `key` with.
Bodies(key) ==
  IF key \in DetailEndpoints
  THEN {[none |-> FALSE, sc |-> NoCode, lkey |-> GoodKey(key), items |-> <<>>,
         hasMore |-> FALSE, cursor |-> 0, ident |-> i] : i \in BOOLEAN}
       \cup
       {[none |-> FALSE, sc |-> s, lkey |-> k, items |-> <<>>,
         hasMore |-> FALSE, cursor |-> 0, ident |-> FALSE] :
           s \in {0, NoCode, BlockCode, OtherCode}, k \in {"none", WrongKey(key)}}
  ELSE {[none |-> FALSE, sc |-> NoCode, lkey |-> GoodKey(key), items |-> p,
         hasMore |-> c[1], cursor |-> c[2], ident |-> FALSE] :
           p \in Pages, c \in Continuations}
       \cup
       {[none |-> FALSE, sc |-> 0, lkey |-> k, items |-> <<>>,
         hasMore |-> c[1], cursor |-> c[2], ident |-> FALSE] :
           k \in {"none", WrongKey(key)}, c \in Continuations}
       \cup
       {[none |-> FALSE, sc |-> s, lkey |-> k, items |-> <<>>,
         hasMore |-> FALSE, cursor |-> 0, ident |-> FALSE] :
           s \in {NoCode, BlockCode, OtherCode}, k \in {"none", WrongKey(key)}}

\* What one attempt of fetch_api can meet: an exception inside the try block
\* (a script timeout, a dead browser), a transport failure reported by the
\* page script, a body of fewer than 10 characters, a body that is not JSON, JSON
\* that is not an object, or a parsed object.
AttemptKinds == {"exc", "fetch_error", "short", "malformed", "nondict", "dict"}

ShortLens == {0, MinBodyLen - 1}

(***************************************************************************)
(* SeleniumDriverAPI.fetch_api                                             *)
(***************************************************************************)
\* A wait for the signing capability with one pass more.
SignRangeLong == 0..max_sign_attempts

\* range(max_sign_attempts) and range(1, max_retries + 1)
SignRange == 0..(max_sign_attempts - 1)
AttemptRange == 1..max_retries

\* A body of any length handed to the parser.
TooShortNever(len) == FALSE

\* `if not body or len(body) < 10`
TooShort(len) == len = 0 \/ len < MinBodyLen

\* Giving up one attempt early.
RetryAllowedEarly(a) == a < max_retries - 1

\* `if attempt < max_retries`
RetryAllowed(a) == a < max_retries

\* Every parsed object taken as a success.
AcceptsAny(key, b) == TRUE

\* `data.get("statusCode") == 0 or any(k in data for k in _expected_keys(endpoint_key))`
Accepted(key, b) == b.sc = 0 \/ b.lkey \in _expected_keys(key)

\* The hashtag listing endpoint answers with its block code and no payload.
BlockReported(key, b) ==
  key = "hashtag_videos" /\ b.sc = BlockCode /\ b.lkey \notin _expected_keys(key)

\* Class of a parsed answer, as the platform sent it.
KindOf(key, b) ==
  IF b.lkey \in _expected_keys(key) THEN "keyed"
  ELSE IF b.sc = 0 THEN "status0"
  ELSE IF BlockReported(key, b) THEN "blocked"
  ELSE "failed"

\* The block code handled like any other reported error.
HardBlockedNever(key, b) == FALSE

\* The block code ending the call for every endpoint.
HardBlockedAnywhere(key, b) == b.sc = BlockCode

\* `endpoint_key == "hashtag_videos" and status_code == 100002`
HardBlocked(key, b) == key = "hashtag_videos" /\ b.sc = BlockCode

\* A mapping derived anew by every call.
SessionRebuilt(p, d) == [params |-> d, queried |-> TRUE]

\* _ensure_hidden_api_session_params: the memoized mapping, or, after the
\* client properties were read from the execution context, a new one around
\* the random draws d (device_id and history_len).
_ensure_hidden_api_session_params(p, d) ==
  IF p # 0 THEN [params |-> p, queried |-> FALSE]
  ELSE [params |-> d, queried |-> TRUE]

\* fetch_api up to `base_params = self._ensure_hidden_api_session_params()`.
FetchEnsureParams ==
  /\ UNCHANGED <<mergeVars, pureVars, lastCall>>
  /\ fpc = "start"
  /\ \E d \in DeviceIds :
       /\ params' = _ensure_hidden_api_session_params(params, d).params
       /\ queried' = _ensure_hidden_api_session_params(params, d).queried
  /\ fpc' = "sign"
  /\ attempt' = 0
  /\ invalidated' = FALSE
  /\ UNCHANGED <<fkey, freq, fres, attemptsMade, delays, navs, empties, lastKind, blockedAt,
                 signNav>>
  /\ UNCHANGED facadeVars

\* No get_* call has returned yet, or the latest one raised.
NoCall == [op |-> "none", count |-> 0, items |-> <<>>]

\* The locals of a finished operation are gone.
Forget ==
  /\ count' = 0 /\ videos' = <<>> /\ cursor' = 0 /\ failures' = 0
  /\ caller' = "top" /\ svideos' = <<>> /\ scursor' = 0
  /\ result' = <<>>
  /\ listFetches' = 0 /\ fallbacks' = 0 /\ searchCalls' = 0
  /\ fetched' = <<>> /\ fbItems' = <<>>
  /\ blockedFirst' = FALSE

\* An exception leaves fetch_api and every get_* / save_*_csv frame above it.
Propagate ==
  /\ pc' = "idle" /\ op' = "none" /\ outcome' = "raised"
  /\ lastCall' = NoCall
  /\ Forget
  /\ UNCHANGED <<cache, files, opsDone>>

\* One pass of the wait for the signing capability.
FetchSignCheck ==
  /\ UNCHANGED <<mergeVars, pureVars>>
  /\ fpc = "sign"
  /\ attempt \in SignRange
  /\ invalidated' = FALSE /\ queried' = FALSE
  /\ UNCHANGED <<fkey, freq, params, attemptsMade, delays, navs, empties, lastKind, blockedAt>>
  /\ \E ready \in BOOLEAN, navOk \in BOOLEAN :
       IF ready
       THEN /\ fpc' = "attempt" /\ attempt' = 1 /\ fres' = fres
            /\ signNav' = FALSE
            /\ UNCHANGED <<facadeVars, lastCall>>
       ELSE IF ~navOk
       THEN /\ fpc' = "none" /\ attempt' = attempt /\ fres' = NoneBody
            /\ signNav' = TRUE
            /\ Propagate
       ELSE /\ signNav' = TRUE
            /\ IF attempt + 1 \in SignRange
               THEN fpc' = fpc /\ attempt' = attempt + 1 /\ fres' = fres
               ELSE fpc' = "ret" /\ attempt' = attempt /\ fres' = NoneBody
            /\ UNCHANGED <<facadeVars, lastCall>>

\* A retry that does not advance the attempt number.
FetchContinueStuck(nav) ==
  /\ delays' = delays + 1
  /\ navs' = navs + nav
  /\ fpc' = fpc /\ attempt' = attempt /\ fres' = fres

\* `continue` after the delay, with or without the recovery navigation.
FetchContinue(nav) ==
  /\ delays' = delays + 1
  /\ navs' = navs + nav
  /\ IF attempt + 1 \in AttemptRange
     THEN fpc' = fpc /\ attempt' = attempt + 1 /\ fres' = fres
     ELSE fpc' = "ret" /\ attempt' = attempt /\ fres' = NoneBody

FetchReturn(v) ==
  /\ fpc' = "ret" /\ fres' = v /\ attempt' = attempt
  /\ delays' = delays /\ navs' = navs

\* `try: self.go(TIKTOK_BASE + "/foryou", wait=2.5) except Exception: pass`:
\* the followed recovery navigation, after it ended with or without an error.
go(sc, navOk) ==
  IF sc.fn = "go" THEN [sc EXCEPT !.v = [raised |-> ~navOk]] ELSE sc

\* One iteration of the retry loop.
FetchAttempt ==
  /\ UNCHANGED <<mergeVars, lastCall>>
  /\ fpc = "attempt"
  /\ attempt \in AttemptRange
  /\ invalidated' = FALSE /\ queried' = FALSE
  /\ UNCHANGED <<fkey, freq, params, signNav>>
  /\ UNCHANGED <<pc, op, count, videos, cursor, failures, caller, svideos, scursor,
                 result, outcome, cache, files, listFetches, fallbacks, searchCalls,
                 fetched, fbItems, opsDone>>
  /\ \E kind \in AttemptKinds :
       /\ attemptsMade' = attemptsMade + 1
       /\ CASE kind \in {"exc", "nondict", "malformed"} ->
                 /\ empties' = empties
                 /\ scope' = scope
                 /\ lastKind' = "failed"
                 /\ UNCHANGED <<blockedAt, blockedFirst>>
                 /\ IF RetryAllowed(attempt) THEN FetchContinue(0) ELSE FetchReturn(NoneBody)
            [] kind \in {"fetch_error", "short"} ->
                 \E len \in IF kind = "short" THEN ShortLens ELSE {0} :
                   /\ empties' = empties + 1
                   /\ lastKind' = "failed"
                   /\ UNCHANGED <<blockedAt, blockedFirst>>
                   /\ IF TooShort(len)
                      THEN IF RetryAllowed(attempt)
                           THEN \E navOk \in BOOLEAN :
                                  scope' = go(scope, navOk) /\ FetchContinue(1)
                           ELSE scope' = scope /\ FetchReturn(NoneBody)
                      ELSE /\ scope' = scope
                           /\ IF RetryAllowed(attempt) THEN FetchContinue(0)
                              ELSE FetchReturn(NoneBody)
            [] kind = "dict" ->
                 \E b \in Bodies(fkey) :
                   /\ empties' = empties
                   /\ scope' = scope
                   /\ lastKind' = KindOf(fkey, b)
                   /\ blockedAt' = IF BlockReported(fkey, b) /\ blockedAt = 0
                                   THEN attempt ELSE blockedAt
                   /\ blockedFirst' = (blockedFirst \/ (BlockReported(fkey, b) /\ attempt = 1
                                                         /\ listFetches = 1 /\ pc = "loop"))
                   /\ IF Accepted(fkey, b) THEN FetchReturn(b)
                      ELSE IF HardBlocked(fkey, b) THEN FetchReturn(NoneBody)
                      ELSE IF RetryAllowed(attempt) THEN FetchContinue(0)
                      ELSE FetchReturn(NoneBody)

(***************************************************************************)
(* Python values held by the cache, the cache and the files.               *)
(***************************************************************************)
PyNone == [t |-> "none", v |-> <<>>]
PyList(s) == [t |-> "list", v |-> s]
PyDict(b) == [t |-> "dict", v |-> <<b>>]
Absent == [t |-> "absent", v |-> <<>>]

\* Value of a fetch_api result as the get_*_info methods hand it on.
PyOf(b) == IF b.none THEN PyNone ELSE PyDict(b)

CacheKeys == {"user_detail", "user_videos", "hashtag_videos", "video_comments",
              "search_videos:#tag", "search_videos:tag", "sound_videos", "playlist_videos"}

\* A cache that stores whatever it is given.
CacheStoreAlways(c, key, value) == [c EXCEPT ![key] = value]

_cache_set(c, key, value) ==
  IF value.t = "none" THEN c
  ELSE IF value.t = "list" /\ value.v = <<>> THEN c
  ELSE IF value.t = "dict" /\ value.v = <<>> THEN c
  ELSE [c EXCEPT ![key] = value]

_cache_get(c, key, default) == IF c[key].t = "absent" THEN default ELSE c[key]

Ops == {"user_info", "user_videos", "hashtag_videos", "video_comments", "search_videos",
        "sound_videos", "playlist_videos"}

ListingOps == Ops \ {"user_info"}

\* Endpoint a listing loop pages through, the list field it reads and the
\* cache key it stores its result under.
ListingKey(o) == IF o = "search_videos" THEN "search_general" ELSE o

ListField(o) == IF o = "video_comments" THEN {"comments"} ELSE {"itemList"}

SearchKey(c) == IF c = "fb1" THEN "search_videos:#tag" ELSE "search_videos:tag"

CacheKeyOf(o) == IF o = "search_videos" THEN "search_videos:tag"
                 ELSE IF o = "user_info" THEN "user_detail" ELSE o

\* resp.get(field, [])
ItemsOf(resp, fields) == IF resp.lkey \in fields THEN resp.items ELSE <<>>

\* search_videos._extract_videos: the entries of item_list, itemList and data.
_extract_videos(resp) == ItemsOf(resp, {"item_list", "itemList", "data"})

MissingFile == [kind |-> "missing", rows |-> <<>>]
\* What pd.DataFrame().to_csv(filename, index=False) leaves: no header, no row.
BlankFile == [kind |-> "blank", rows |-> <<>>]
RowsFile(r) == [kind |-> "rows", rows |-> r]

\* astype(str) of a numeric key, and read_csv's parse of a numeric column.
AsStr(n) == ToString(n)
ParseInt(txt) == CHOOSE n \in 0..(MaxItem + 1) : ToString(n) = txt

\* DataFrame.drop_duplicates(subset=[key]): the first row of every key stays.
RECURSIVE DropDuplicates(_, _)
DropDuplicates(rows, seen) ==
  IF rows = <<>> THEN <<>>
  ELSE IF Head(rows) \in seen THEN DropDuplicates(Tail(rows), seen)
  ELSE <<Head(rows)>> \o DropDuplicates(Tail(rows), seen \cup {Head(rows)})

\* _deduplicate(existing_path, new_df, key): rows of the existing file first,
\* keys coerced to strings, duplicates dropped.
_deduplicate(file, newIds) ==
  LET old == IF file.kind = "missing" THEN <<>>
             ELSE [i \in 1..Len(file.rows) |-> ParseInt(file.rows[i])]
      all == old \o newIds
  IN DropDuplicates([i \in 1..Len(all) |-> AsStr(all[i])], {})

\* pd.read_csv raises EmptyDataError on a file without a header line.
ReadRaises(file) == file.kind = "blank"

(***************************************************************************)
(* Calls of fetch_api from the facade.                                     *)
(***************************************************************************)
CallFetch(key, cur) ==
  /\ fpc' = "start" /\ fkey' = key /\ freq' = cur
  /\ attempt' = 0 /\ fres' = NoneBody
  /\ attemptsMade' = 0 /\ delays' = 0 /\ navs' = 0 /\ empties' = 0
  /\ lastKind' = "none" /\ blockedAt' = 0 /\ signNav' = FALSE

NoFetch ==
  /\ fpc' = "none" /\ fkey' = "none" /\ freq' = 0
  /\ attempt' = 0 /\ fres' = NoneBody
  /\ attemptsMade' = 0 /\ delays' = 0 /\ navs' = 0 /\ empties' = 0
  /\ lastKind' = "none" /\ blockedAt' = 0 /\ signNav' = FALSE

\* A retry that keeps the memoized parameters.
InvalidateSkipped == params' = params /\ invalidated' = FALSE /\ queried' = FALSE

\* `drv._hidden_api_session_params = None`
Invalidate == params' = 0 /\ invalidated' = TRUE /\ queried' = FALSE
KeepParams == params' = params /\ invalidated' = FALSE /\ queried' = FALSE

ProgramInit ==
  /\ pc = "idle" /\ op = "none" /\ count = 0
  /\ videos = <<>> /\ cursor = 0 /\ failures = 0
  /\ caller = "top" /\ svideos = <<>> /\ scursor = 0
  /\ result = <<>> /\ outcome = "none"
  /\ fpc = "none" /\ fkey = "none" /\ freq = 0 /\ attempt = 0 /\ fres = NoneBody
  /\ params = 0
  /\ cache = [k \in CacheKeys |-> Absent]
  /\ files = [o \in Ops |-> MissingFile]
  /\ attemptsMade = 0 /\ delays = 0 /\ navs = 0 /\ empties = 0
  /\ listFetches = 0 /\ fallbacks = 0 /\ searchCalls = 0
  /\ fetched = <<>> /\ fbItems = <<>>
  /\ invalidated = FALSE /\ queried = FALSE
  /\ lastKind = "none" /\ blockedAt = 0 /\ blockedFirst = FALSE
  /\ signNav = FALSE
  /\ opsDone = 0
  /\ lastCall = NoCall

\* No merge-and-write call is under way.
MergeIdle ==
  /\ mfile = [kind |-> "missing", rows |-> <<>>]
  /\ mnew = <<>> /\ mcalls = 0 /\ mkeys = {} /\ moutcome = "none"

\* The facade owns a context that went through _ensure_driver.
ContextReady == life = ReadyContext

\* No function is followed.
NoFrame == [fn |-> "none"]

\* No request has been built.
NoRequest == [key |-> "none"]

\* Request building of fetch_api: the endpoint, the call's params, the
\* session token read and the merged parameter set.
req == IF scope.fn = "fetch_api" THEN scope.v ELSE NoRequest

\* No default file name has been derived.
NoName == [endpoint |-> "none", identifier |-> <<>>, name |-> ""]

\* The endpoint and identifier of the _default_csv_filename call and the
\* name it returned ("" before it returns).
fname == IF scope.fn = "_default_csv_filename" THEN scope.v ELSE NoName

\* No DOM scroll loop has run.
DomIdle == [pc |-> "idle", kind |-> "none", count |-> 0, urls |-> 0, no_new |-> 0,
            iter |-> 0]

\* The scroll loop's state.
dom == IF scope.fn = "scroll" THEN scope.v ELSE DomIdle

\* Position: "idle", "loop" (head of the for loop), "done", "raised"
dpc == dom.pc

\* The method running the loop.
dkind == dom.kind

\* Its argument `count`.
dcount == dom.count

\* len(video_urls) in get_video_urls, len(seen) = saved in save_tiktok_multi_page.
durls == dom.urls

\* `no_new`
dno_new == dom.no_new

\* Iterations of the for loop begun.
diter == dom.iter

\* The recovery navigations of fetch_api's retry loop: whether the latest one
\* raised.
recovery == IF scope.fn = "go" THEN scope.v ELSE [raised |-> FALSE]

PureIdle == scope = NoFrame

Init == ProgramInit /\ MergeIdle /\ PureIdle /\ ContextReady

(***************************************************************************)
(* Entry of a get_* method (directly or through its save_*_csv wrapper).   *)
(***************************************************************************)
StartOp(ops, maxOps) ==
  /\ UNCHANGED <<mergeVars, pureVars, lastCall>>
  /\ pc = "idle"
  /\ opsDone < maxOps
  /\ \E o \in ops, c \in Counts :
       /\ (o = "user_info" => c = 0)
       /\ op' = o /\ count' = c
       /\ IF o \in {"user_info", "user_videos"}
          THEN pc' = "info" /\ CallFetch("user_detail", 0)
          ELSE IF o = "hashtag_videos"
          THEN pc' = "info" /\ CallFetch("hashtag_detail", 0)
          ELSE IF o = "search_videos"
          THEN pc' = "search" /\ NoFetch
          ELSE pc' = "loop" /\ NoFetch
  /\ videos' = <<>> /\ cursor' = 0 /\ failures' = 0
  /\ caller' = "top" /\ svideos' = <<>> /\ scursor' = 0
  /\ result' = <<>> /\ outcome' = "none"
  /\ listFetches' = 0 /\ fallbacks' = 0 /\ searchCalls' = 0
  /\ fetched' = <<>> /\ fbItems' = <<>>
  /\ blockedFirst' = FALSE
  /\ opsDone' = opsDone + 1
  /\ KeepParams
  /\ UNCHANGED <<cache, files>>

\* `return value` of the get_* method.
OpReturn(value) ==
  /\ pc' = "ret" /\ result' = value /\ NoFetch

\* The loop condition off by one.
MoreWantedInclusive(acc, n) == Len(acc) <= n

\* `while len(videos) < count`
MoreWanted(acc, n) == Len(acc) < n

\* The failure cap off by one.
FailureCapLate(f) == f > max_consecutive_failures

\* `if consecutive_failures >= max_consecutive_failures`
FailureCapReached(f) == f >= max_consecutive_failures

\* The fallback one failure early.
BlockedCapReached(f) == f >= max_blocked_retries

\* `if blocked_retries > max_blocked_retries`
BlockedCapExceeded(f) == f > max_blocked_retries

\* get_user_info's return, and what get_user_videos / get_hashtag_videos do
\* with the detail response before their loop.
InfoReturn ==
  /\ UNCHANGED <<mergeVars, pureVars, lastCall>>
  /\ pc = "info" /\ fpc = "ret"
  /\ cache' = IF op = "hashtag_videos" THEN cache
              ELSE _cache_set(cache, "user_detail", PyOf(fres))
  /\ IF op = "user_info"
     THEN OpReturn(IF fres.none THEN <<>> ELSE <<fres>>)
     ELSE IF fres.none \/ ~(fres.lkey \in _expected_keys(fkey) /\ fres.ident)
     THEN OpReturn(<<>>)
     ELSE pc' = "loop" /\ result' = result /\ NoFetch
  /\ KeepParams
  /\ UNCHANGED <<op, count, videos, cursor, failures, caller, svideos, scursor,
                 outcome, files, listFetches, fallbacks, searchCalls, fetched, fbItems,
                 blockedFirst, opsDone>>

\* `while len(videos) < count:` followed by the page request.
LoopHead ==
  /\ UNCHANGED <<mergeVars, pureVars, lastCall>>
  /\ pc = "loop" /\ fpc = "none"
  /\ IF MoreWanted(videos, count)
     THEN /\ pc' = "loop" /\ CallFetch(ListingKey(op), cursor)
          /\ listFetches' = Min(listFetches + 1, MaxListFetches)
     ELSE /\ pc' = "out" /\ NoFetch
          /\ listFetches' = listFetches
  /\ KeepParams
  /\ UNCHANGED <<op, count, videos, cursor, failures, caller, svideos, scursor,
                 result, outcome, cache, files, fallbacks, searchCalls, fetched, fbItems,
                 blockedFirst, opsDone>>

\* Code after the loop: out = videos[:count]; _cache_set(key, out); return out
LoopExit ==
  /\ UNCHANGED <<mergeVars, pureVars, lastCall>>
  /\ pc = "out"
  /\ LET out == Take(videos, count)
     IN /\ cache' = _cache_set(cache, CacheKeyOf(op), PyList(out))
        /\ OpReturn(out)
  /\ KeepParams
  /\ UNCHANGED <<op, count, videos, cursor, failures, caller, svideos, scursor,
                 outcome, files, listFetches, fallbacks, searchCalls, fetched, fbItems,
                 blockedFirst, opsDone>>

\* A listing that starts over after every page.
CursorRestarts(resp) == 0

\* `cursor = resp.get("cursor", 0)`
next_cursor(resp) == resp.cursor

\* A successful page: append its items up to count, then stop on a false
\* continuation flag or take the response's cursor.
TakePage(fields) ==
  /\ videos' = AppendUntil(videos, ItemsOf(fres, fields), count)
  /\ fetched' = Take(fetched \o ItemsOf(fres, fields), count)
  /\ IF ~fres.hasMore
     THEN pc' = "out" /\ cursor' = cursor
     ELSE pc' = "loop" /\ cursor' = next_cursor(fres)
  /\ NoFetch

\* get_user_videos, body of the loop after fetch_api returned.
UserVideosPage ==
  /\ UNCHANGED <<mergeVars, pureVars, lastCall>>
  /\ pc = "loop" /\ op = "user_videos" /\ fpc = "ret"
  /\ IF fres.none
     THEN /\ failures' = failures + 1
          /\ IF FailureCapReached(failures + 1)
             THEN OpReturn(Take(videos, count)) /\ KeepParams
             ELSE pc' = "loop" /\ result' = result /\ NoFetch /\ Invalidate
          /\ UNCHANGED <<videos, cursor, fetched>>
     ELSE /\ failures' = 0
          /\ TakePage(ListField(op))
          /\ result' = result
          /\ KeepParams
  /\ UNCHANGED <<op, count, caller, svideos, scursor, outcome, cache, files,
                 listFetches, fallbacks, searchCalls, fbItems, blockedFirst, opsDone>>

\* get_hashtag_videos, body of the loop after fetch_api returned.
HashtagVideosPage ==
  /\ UNCHANGED <<mergeVars, pureVars, lastCall>>
  /\ pc = "loop" /\ op = "hashtag_videos" /\ fpc = "ret"
  /\ IF fres.none
     THEN /\ failures' = failures + 1
          /\ IF BlockedCapExceeded(failures + 1)
             THEN /\ pc' = "search" /\ caller' = "fb1"
                  /\ fallbacks' = fallbacks + 1
                  /\ NoFetch /\ KeepParams
             ELSE /\ pc' = "loop" /\ caller' = caller
                  /\ fallbacks' = fallbacks
                  /\ NoFetch /\ Invalidate
          /\ UNCHANGED <<videos, cursor, fetched>>
     ELSE /\ failures' = failures
          /\ TakePage(ListField(op))
          /\ caller' = caller /\ fallbacks' = fallbacks
          /\ KeepParams
  /\ svideos' = <<>> /\ scursor' = 0
  /\ UNCHANGED <<op, count, result, outcome, cache, files, listFetches,
                 searchCalls, fbItems, blockedFirst, opsDone>>

\* get_video_comments: a failed page returns the comments gathered so far.
CommentsPage ==
  /\ UNCHANGED <<mergeVars, pureVars, lastCall>>
  /\ pc = "loop" /\ op = "video_comments" /\ fpc = "ret"
  /\ IF fres.none
     THEN /\ OpReturn(Take(videos, count))
          /\ UNCHANGED <<videos, cursor, fetched>>
     ELSE /\ TakePage(ListField(op))
          /\ result' = result
  /\ KeepParams
  /\ UNCHANGED <<op, count, failures, caller, svideos, scursor, outcome, cache,
                 files, listFetches, fallbacks, searchCalls, fbItems, blockedFirst, opsDone>>

\* get_sound_videos and get_playlist_videos: a failed page leaves the loop.
SoundPlaylistPage ==
  /\ UNCHANGED <<mergeVars, pureVars, lastCall>>
  /\ pc = "loop" /\ op \in {"sound_videos", "playlist_videos"} /\ fpc = "ret"
  /\ IF fres.none
     THEN /\ pc' = "out" /\ NoFetch
          /\ UNCHANGED <<videos, cursor, fetched>>
     ELSE TakePage(ListField(op))
  /\ KeepParams
  /\ UNCHANGED <<op, count, failures, caller, svideos, scursor, result, outcome,
                 cache, files, listFetches, fallbacks, searchCalls, fbItems, blockedFirst, opsDone>>

\* search_videos: `while len(videos) < count:` followed by the page request.
SearchHead ==
  /\ UNCHANGED <<mergeVars, pureVars, lastCall>>
  /\ pc = "search" /\ fpc = "none"
  /\ IF MoreWanted(svideos, count)
     THEN /\ pc' = "search" /\ CallFetch("search_general", scursor)
          /\ listFetches' = IF caller = "top" THEN Min(listFetches + 1, MaxListFetches)
                            ELSE listFetches
     ELSE /\ pc' = "sout" /\ NoFetch
          /\ listFetches' = listFetches
  /\ KeepParams
  /\ UNCHANGED <<op, count, videos, cursor, failures, caller, svideos, scursor,
                 result, outcome, cache, files, fallbacks, searchCalls, fetched, fbItems,
                 blockedFirst, opsDone>>

\* search_videos, body of the loop after fetch_api returned.
SearchPage ==
  /\ UNCHANGED <<mergeVars, pureVars, lastCall>>
  /\ pc = "search" /\ fpc = "ret"
  /\ LET items == _extract_videos(fres)
     IN IF fres.none \/ items = <<>>
        THEN /\ pc' = "sout"
             /\ UNCHANGED <<svideos, scursor, fetched>>
        ELSE /\ svideos' = AppendUntil(svideos, items, count)
             /\ fetched' = IF caller = "top" THEN Take(fetched \o items, count) ELSE fetched
             /\ IF ~fres.hasMore
                THEN pc' = "sout" /\ scursor' = scursor
                ELSE pc' = "search" /\ scursor' = fres.cursor
  /\ NoFetch
  /\ KeepParams
  /\ UNCHANGED <<op, count, videos, cursor, failures, caller, result, outcome,
                 cache, files, listFetches, fallbacks, searchCalls, fbItems, blockedFirst, opsDone>>

\* search_videos after its loop, and the fallback branch of
\* get_hashtag_videos that called it: a second query without '#' when the
\* first found nothing, then (videos + fallback_videos)[:count].
SearchExit ==
  /\ UNCHANGED <<mergeVars, pureVars, lastCall>>
  /\ pc = "sout"
  /\ LET out == Take(svideos, count)
     IN /\ cache' = _cache_set(cache, SearchKey(caller), PyList(out))
        /\ IF caller = "top"
           THEN /\ OpReturn(out)
                /\ UNCHANGED <<caller, svideos, scursor, searchCalls, fbItems>>
           ELSE IF caller = "fb1" /\ out = <<>>
           THEN /\ pc' = "search" /\ caller' = "fb2" /\ result' = result /\ NoFetch
                /\ svideos' = <<>> /\ scursor' = 0
                /\ searchCalls' = searchCalls + 1
                /\ fbItems' = fbItems
           ELSE /\ OpReturn(Take(videos \o out, count))
                /\ searchCalls' = searchCalls + 1
                /\ fbItems' = out
                /\ UNCHANGED <<caller, svideos, scursor>>
  /\ KeepParams
  /\ UNCHANGED <<op, count, videos, cursor, failures, outcome, files,
                 listFetches, fallbacks, fetched, blockedFirst, opsDone>>

(***************************************************************************)
(* Return to the caller, through save_*_csv when the operation is a save.  *)
(***************************************************************************)
\* Keys of the export rows of a listing result (video_id / cid).
RowIds(items) == items

\* Key cell of the flattened detail row: the entity's id, or no key column.
InfoCell(b) == IF b.lkey = "userInfo" /\ b.ident THEN "1" ELSE ""

\* save_user_info_csv after a non-empty response: append to the file and
\* drop duplicates on the first key column the frame has.
MergeInfo(file, b) ==
  LET old == IF file.kind = "missing" THEN <<>> ELSE file.rows
      all == Append(old, InfoCell(b))
  IN IF \E i \in 1..Len(all) : all[i] # "" THEN DropDuplicates(all, {}) ELSE all

\* Rows a listing save writes: the fetched ones, else the cached ones cut at count.
SaveRows ==
  IF result # <<>> THEN result
  ELSE Take(_cache_get(cache, CacheKeyOf(op), PyList(<<>>)).v, count)

\* The get_* method was called directly: its value goes to the caller.
ReturnToCaller ==
  /\ UNCHANGED <<mergeVars, pureVars>>
  /\ pc = "ret"
  /\ pc' = "idle" /\ op' = "none"
  /\ outcome' = "returned"
  /\ lastCall' = [op |-> op, count |-> count, items |-> result]
  /\ NoFetch
  /\ KeepParams
  /\ Forget
  /\ UNCHANGED <<cache, files, opsDone>>

\* The get_* method was called by its save_*_csv wrapper: the rest of the wrapper.
SaveCsv ==
  /\ UNCHANGED <<mergeVars, pureVars>>
  /\ pc = "ret"
  /\ pc' = "idle" /\ op' = "none"
  /\ lastCall' = [op |-> op, count |-> count, items |-> result]
  /\ IF op = "user_info"
     THEN IF result = <<>>
          THEN outcome' = "returned" /\ files' = [files EXCEPT ![op] = BlankFile]
          ELSE IF ReadRaises(files[op])
          THEN outcome' = "raised" /\ files' = files
          ELSE /\ outcome' = "returned"
               /\ files' = [files EXCEPT ![op] = RowsFile(MergeInfo(files[op], result[1]))]
     ELSE IF SaveRows = <<>>
          THEN outcome' = "returned" /\ files' = [files EXCEPT ![op] = BlankFile]
          ELSE IF ReadRaises(files[op])
          THEN outcome' = "raised" /\ files' = files
          ELSE /\ outcome' = "returned"
               /\ files' = [files EXCEPT
                              ![op] = RowsFile(_deduplicate(files[op], RowIds(SaveRows)))]
  /\ NoFetch
  /\ KeepParams
  /\ Forget
  /\ UNCHANGED <<cache, opsDone>>

\* One get_* or save_*_csv call on a fresh facade.
Call == StartOp(Ops, 1)

Next ==
  \/ Call
  \/ FetchEnsureParams
  \/ FetchSignCheck
  \/ FetchAttempt
  \/ InfoReturn
  \/ LoopHead
  \/ LoopExit
  \/ UserVideosPage
  \/ HashtagVideosPage
  \/ CommentsPage
  \/ SoundPlaylistPage
  \/ SearchHead
  \/ SearchPage
  \/ SearchExit
  \/ ReturnToCaller
  \/ SaveCsv

Spec == Init /\ [][Next]_vars

\* The same call on a thread that keeps running.
FairSpec == Spec /\ WF_vars(Next)

\* Repeated save_user_info_csv / save_user_videos_csv runs of one facade
\* against the same files.
RunOps == {"user_info", "user_videos"}

Run == StartOp(RunOps, MaxRuns)

NextRuns ==
  \/ Run
  \/ FetchEnsureParams
  \/ FetchSignCheck
  \/ FetchAttempt
  \/ InfoReturn
  \/ LoopHead
  \/ LoopExit
  \/ UserVideosPage
  \/ SaveCsv

SpecRuns == Init /\ [][NextRuns]_vars

\* One get_user_info or get_video_comments call (or its save_*_csv wrapper)
\* on a fresh facade, with the recovery navigations of fetch_api followed.
RecoveryOps == {"user_info", "video_comments"}

CallRecovery == StartOp(RecoveryOps, 1)

InitRecovery ==
  /\ ProgramInit /\ MergeIdle
  /\ scope = [fn |-> "go", v |-> [raised |-> FALSE]]
  /\ ContextReady

NextRecovery ==
  \/ CallRecovery
  \/ FetchEnsureParams
  \/ FetchSignCheck
  \/ FetchAttempt
  \/ InfoReturn
  \/ LoopHead
  \/ LoopExit
  \/ CommentsPage
  \/ ReturnToCaller
  \/ SaveCsv

SpecRecovery == InitRecovery /\ [][NextRecovery]_vars

\* One search_videos call (or its save_*_csv wrapper) on a fresh facade.
CallSearch == StartOp({"search_videos"}, 1)

NextSearch ==
  \/ CallSearch
  \/ FetchEnsureParams
  \/ FetchSignCheck
  \/ FetchAttempt
  \/ SearchHead
  \/ SearchPage
  \/ SearchExit
  \/ ReturnToCaller
  \/ SaveCsv

SpecSearch == Init /\ [][NextSearch]_vars

(***************************************************************************)
(* Merge-and-write of the save_*_csv methods on the rows themselves:       *)
(* rows = [generate_video_data_row(v) ...]; _deduplicate(filename, rows,   *)
(* key); to_csv(filename).  A row is its key cell and the rest of its      *)
(* cells (val).  A file holds text; a frame holds Python values.           *)
(***************************************************************************)
\* Key texts: the decimal numerals of 1..MaxKey, the same numbers written with
\* a leading zero, and the empty text of an item without an id.
CanonTexts == {ToString(n) : n \in 1..MaxKey}
PaddedTexts == {"0" \o ToString(n) : n \in 1..MaxKey}
KeyTexts == CanonTexts \cup PaddedTexts \cup {""}

IntCell(n) == [t |-> "int", n |-> n, s |-> ""]
StrCell(txt) == [t |-> "str", n |-> 0, s |-> txt]

\* A text that read_csv parses as an integer, and the integer.
IsNumeral(txt) == txt \in CanonTexts \cup PaddedTexts
ReadInt(txt) == CHOOSE n \in 1..MaxKey : txt \in {ToString(n), "0" \o ToString(n)}

\* pd.read_csv(path, keep_default_na=False): a column whose cells are all
\* numerals becomes an integer column, any other column stays text.
\* A file without a header line raises (ReadRaises).
read_csv(file) ==
  LET numeric == \A i \in 1..Len(file.rows) : IsNumeral(file.rows[i].key)
  IN [i \in 1..Len(file.rows) |->
        [key |-> IF numeric THEN IntCell(ReadInt(file.rows[i].key))
                 ELSE StrCell(file.rows[i].key),
         val |-> file.rows[i].val]]

\* Series.astype(str) on one cell.
astype_str(c) == IF c.t = "int" THEN ToString(c.n) ELSE c.s

\* drop_duplicates(subset=[key]) on rows whose key is text: first row of a key stays.
RECURSIVE DropDuplicateKeys(_, _)
DropDuplicateKeys(rows, seen) ==
  IF rows = <<>> THEN <<>>
  ELSE IF Head(rows).key \in seen THEN DropDuplicateKeys(Tail(rows), seen)
  ELSE <<Head(rows)>> \o DropDuplicateKeys(Tail(rows), seen \cup {Head(rows).key})

\* _deduplicate(existing_path, new_df, key) on whole rows.
DeduplicateFrame(file, new_df) ==
  LET old == IF file.kind = "missing" THEN <<>> ELSE read_csv(file)
      all == old \o new_df
      str == [i \in 1..Len(all) |-> [key |-> astype_str(all[i].key), val |-> all[i].val]]
  IN DropDuplicateKeys(str, {})

\* Frames a save can hand over: 1..MaxNewRows rows, keys as the platform sent them.
NewRows == [key : {StrCell(t) : t \in KeyTexts}, val : 1..MaxVal]
NewFrames == UNION {[1..n -> NewRows] : n \in 1..MaxNewRows}

FrameKeys(frame) == {frame[i].key.s : i \in 1..Len(frame)}

\* combined = _deduplicate(filename, combined, key); combined.to_csv(filename)
MergeWrite ==
  /\ mcalls < MaxWrites
  /\ \E frame \in NewFrames :
       /\ mnew' = frame
       /\ mkeys' = mkeys \cup FrameKeys(frame)
       /\ IF ReadRaises(mfile)
          THEN moutcome' = "raised" /\ mfile' = mfile
          ELSE moutcome' = "written" /\ mfile' = RowsFile(DeduplicateFrame(mfile, frame))
  /\ mcalls' = mcalls + 1
  /\ UNCHANGED <<apiVars, pureVars>>

\* The same save run again with the same fetched rows.
MergeRepeat ==
  /\ mcalls \in 1..(MaxWrites - 1)
  /\ mnew' = mnew
  /\ mkeys' = mkeys
  /\ IF ReadRaises(mfile)
     THEN moutcome' = "raised" /\ mfile' = mfile
     ELSE moutcome' = "written" /\ mfile' = RowsFile(DeduplicateFrame(mfile, mnew))
  /\ mcalls' = mcalls + 1
  /\ UNCHANGED <<apiVars, pureVars>>

\* The file is missing, or an earlier empty save left it blank.
InitMerge ==
  /\ ProgramInit /\ PureIdle /\ ContextReady
  /\ mfile \in {MissingFile, BlankFile}
  /\ mnew = <<>> /\ mcalls = 0 /\ mkeys = {} /\ moutcome = "none"

NextMerge == MergeWrite \/ MergeRepeat

SpecMerge == InitMerge /\ [][NextMerge]_vars


(***************************************************************************)
(* Life cycle of the execution context: PyktokAPI._ensure_driver,          *)
(* SeleniumDriverAPI.start and stop.                                       *)
(***************************************************************************)
\* A fresh facade: PyktokAPI._driver is None.
NoContext ==
  scope = Followed([spc |-> "idle", sdriver |-> 0, sattempt |-> 0, waits |-> <<>>,
                    tried |-> 0, made |-> 0, quits |-> {}, starts |-> 0, sready |-> FALSE,
                    soutcome |-> "none", api |-> FALSE, dead |-> {}, nquit |-> 0,
                    quitRaised |-> FALSE, steps |-> <<>>])

\* Outcomes of one creation attempt: the instance works, uc.Chrome(...)
\* raises, or the instance is created and the probe get("about:blank") raises.
CreateOutcomes == {"ok", "ctor_raises", "probe_raises"}

\* The same delay after every failed attempt.
WaitFixed(a) == 2

\* `wait_time = attempt * 2`
wait_time(a) == a * 2

\* A facade that makes a context at every operation.
AlwaysNew(d) == TRUE

\* `if self._driver is None or self._driver.driver is None:`
NeedsContext(d) == d = 0

\* An operation of the module-level API: _get_api() installs a facade when
\* there is none, then _ensure_driver: a facade without an instance makes a
\* new SeleniumDriverAPI and calls start(); otherwise the owned one is handed
\* on.
EnsureDriver ==
  /\ spc = "idle"
  /\ IF NeedsContext(sdriver)
     THEN /\ starts < MaxStarts
          /\ scope' = Followed([life EXCEPT !.api = TRUE, !.spc = "create",
                                            !.sattempt = 1, !.waits = <<>>, !.tried = 0,
                                            !.starts = starts + 1, !.sready = FALSE,
                                            !.soutcome = "none", !.sdriver = 0,
                                            !.steps = <<>>])
     ELSE scope' = Followed([life EXCEPT !.api = TRUE, !.soutcome = "handed"])
  /\ UNCHANGED <<apiVars, mergeVars>>

\* One iteration of start()'s loop: the attempt, and on an exception the
\* clean-up of the failed driver and the delay before the next attempt.
CreateAttempt ==
  /\ spc = "create"
  /\ sattempt \in 1..max_attempts
  /\ \E how \in CreateOutcomes :
       IF how = "ok"
       THEN scope' = Followed([life EXCEPT !.tried = tried + 1, !.sdriver = made + 1,
                                           !.made = made + 1, !.spc = "post"])
       ELSE LET created == how = "probe_raises"
                retry == sattempt < max_attempts
            IN scope' = Followed([life EXCEPT
                          !.tried = tried + 1,
                          !.made = IF created THEN made + 1 ELSE made,
                          !.quits = IF created THEN quits \cup {made + 1} ELSE quits,
                          !.nquit = IF created THEN nquit + 1 ELSE nquit,
                          !.sdriver = IF created THEN 0 ELSE sdriver,
                          !.waits = IF retry THEN Append(waits, wait_time(sattempt))
                                    ELSE waits,
                          !.sattempt = IF retry THEN sattempt + 1 ELSE sattempt,
                          !.spc = IF retry THEN "create" ELSE "post"])
  /\ UNCHANGED <<apiVars, mergeVars>>

\* The command of start()'s tail that raises, if any: set_script_timeout,
\* get(TIKTOK_BASE), the refresh() that ends _inject_cookies, or one of the
\* two warm-up navigations.
StartFailures == {"none", "timeout", "home", "refresh", "foryou", "profile"}

\* A start() that injects the cookies before it loads any page of the site.
CookiesFirst(hasCookies, fail) ==
  LET jar == IF hasCookies THEN <<"cookies">> ELSE <<>> IN
    IF fail = "timeout" THEN [steps |-> <<"timeout">>, raised |-> TRUE]
    ELSE IF fail = "refresh" /\ hasCookies
    THEN [steps |-> <<"timeout">> \o jar, raised |-> TRUE]
    ELSE IF fail = "home"
    THEN [steps |-> <<"timeout">> \o jar \o <<"home">>, raised |-> TRUE]
    ELSE [steps |-> <<"timeout">> \o jar \o <<"home", "foryou">>
                     \o (IF fail = "foryou" THEN <<>> ELSE <<"profile">>),
          raised |-> FALSE]

\* start() on a created instance (lines 335-362): the commands it issues, in
\* order, and whether an exception leaves it.  set_script_timeout and
\* get(TIKTOK_BASE) are outside any try; `if cookies_jar:` guards
\* _inject_cookies, whose add_cookie errors are swallowed and whose refresh()
\* is not; the two warm-up navigations share one try/except.
start_tail(hasCookies, fail) ==
  IF fail = "timeout" THEN [steps |-> <<"timeout">>, raised |-> TRUE]
  ELSE IF fail = "home" THEN [steps |-> <<"timeout", "home">>, raised |-> TRUE]
  ELSE LET jar == IF hasCookies THEN <<"cookies">> ELSE <<>> IN
         IF fail = "refresh" /\ hasCookies
         THEN [steps |-> <<"timeout", "home">> \o jar, raised |-> TRUE]
         ELSE [steps |-> <<"timeout", "home">> \o jar \o <<"foryou">>
                          \o (IF fail = "foryou" THEN <<>> ELSE <<"profile">>),
               raised |-> FALSE]

\* start() after the loop: RuntimeError when no instance is owned, else the
\* tail above, with or without a non-empty cookie jar.
StartFinish ==
  /\ spc = "post"
  /\ IF sdriver = 0
     THEN scope' = Followed([life EXCEPT !.spc = "idle", !.soutcome = "fatal",
                                         !.sready = FALSE])
     ELSE \E hasCookies \in BOOLEAN, fail \in StartFailures :
            LET r == start_tail(hasCookies, fail)
            IN scope' = Followed([life EXCEPT
                                    !.spc = "idle", !.sready = ~r.raised,
                                    !.steps = r.steps,
                                    !.soutcome = IF r.raised THEN "raised" ELSE "started"])
  /\ UNCHANGED <<apiVars, mergeVars>>

\* A stop() that lets the error of quit() out and keeps the instance.
StopPropagates(d, ok) ==
  IF d # 0 /\ ~ok THEN [driver |-> d, quit |-> TRUE, raised |-> TRUE]
  ELSE [driver |-> 0, quit |-> d # 0, raised |-> FALSE]

\* SeleniumDriverAPI.stop on an object whose driver is d, ok telling whether
\* quit() returns: `if self.driver:` quit() inside try/except Exception, then
\* `self.driver = None`.
stop(d, ok) == [driver |-> 0, quit |-> d # 0, raised |-> FALSE]

\* PyktokAPI.close: `if self._driver: self._driver.stop(); self._driver = None`,
\* the life cycle l after it.
CloseFacade(l, ok, event) ==
  LET r == stop(l.sdriver, ok) IN
    [l EXCEPT !.sdriver = r.driver,
              !.quits = IF r.quit THEN l.quits \cup {l.sdriver} ELSE l.quits,
              !.nquit = IF r.quit THEN l.nquit + 1 ELSE l.nquit,
              !.quitRaised = (r.quit /\ ~ok),
              !.sready = (r.raised /\ l.sready),
              !.soutcome = IF r.raised THEN "raised" ELSE event]

\* PyktokAPI.close on the installed facade, with or without an instance.
Stop ==
  /\ spc = "idle"
  /\ api
  /\ \E ok \in BOOLEAN : scope' = Followed(CloseFacade(life, ok, "stopped"))
  /\ UNCHANGED <<apiVars, mergeVars>>

\* Module-level close(): `if _api: _api.close(); _api = None`.
Close ==
  /\ spc = "idle"
  /\ IF api
     THEN \E ok \in BOOLEAN :
            LET l == CloseFacade(life, ok, "closed")
            IN scope' = Followed([l EXCEPT !.api = (l.soutcome = "raised")])
     ELSE scope' = scope
  /\ UNCHANGED <<apiVars, mergeVars>>

\* specify_browser: `if _api is not None: _api.close()`, then a new facade,
\* which owns no context yet.
SpecifyBrowser ==
  /\ spc = "idle"
  /\ IF api
     THEN \E ok \in BOOLEAN : scope' = Followed(CloseFacade(life, ok, "specified"))
     ELSE scope' = Followed([life EXCEPT !.soutcome = "specified", !.sready = FALSE,
                                         !.api = TRUE])
  /\ UNCHANGED <<apiVars, mergeVars>>

\* The browser process of the owned instance ends between two operations
\* (crash, closed window, killed process); the program is not told.
BrowserDies ==
  /\ spc = "idle"
  /\ sdriver # 0 /\ sdriver \notin dead
  /\ scope' = Followed([life EXCEPT !.dead = dead \cup {sdriver}, !.soutcome = "died"])
  /\ UNCHANGED <<apiVars, mergeVars>>

InitStart == ProgramInit /\ MergeIdle /\ NoContext

NextStart ==
  \/ EnsureDriver
  \/ CreateAttempt
  \/ StartFinish
  \/ Stop
  \/ Close
  \/ SpecifyBrowser
  \/ BrowserDies

SpecStart == InitStart /\ [][NextStart]_vars


(***************************************************************************)
(* The merged parameter set of one fetch_api attempt:                      *)
(* {**base_params, **params, "msToken": ms_token} and the origin hints.    *)
(* A mapping is a function on ParamNames; Missing marks a key it lacks.    *)
(***************************************************************************)
ParamNames == {"from_page", "device_id", "msToken", "cursor"}

Missing == "<missing>"

\* Endpoints a request is built for: the modelled ones and the rest of the
\* endpoints that fetch_api treats by name.
RequestEndpoints == HIDDEN_API_ENDPOINTS \cup {"related_videos", "trending", "search_users"}

\* {**a, **b}
DictMerge(a, b) == [k \in ParamNames |-> IF b[k] # Missing THEN b[k] ELSE a[k]]

\* m.setdefault(k, v)
setdefault(m, k, v) == IF m[k] = Missing THEN [m EXCEPT ![k] = v] ELSE m

\* The mapping _ensure_hidden_api_session_params builds around device id d.
SessionMapping(d) ==
  [k \in ParamNames |-> CASE k = "from_page" -> "user"
                          [] k = "device_id" -> ToString(d)
                          [] OTHER -> Missing]

\* The origin hint fetch_api has for an endpoint (Missing: none).
OriginHint(key) ==
  CASE key = "trending" -> "fyp"
    [] key = "hashtag_videos" -> "challenge"
    [] key \in {"related_videos", "video_comments"} -> "video"
    [] OTHER -> Missing

\* merged_params of one attempt.
merged_params(key, base, call, token) ==
  LET m == [DictMerge(base, call) EXCEPT !["msToken"] = token]
  IN IF OriginHint(key) # Missing THEN setdefault(m, "from_page", OriginHint(key)) ELSE m

\* Params a caller can hand to fetch_api: with or without from_page, a cursor,
\* and keys that collide with the session mapping and the token.
CallParams ==
  {[k \in ParamNames |-> CASE k = "from_page" -> f
                           [] k = "device_id" -> d
                           [] k = "msToken" -> t
                           [] OTHER -> c] :
     f \in {Missing, "search", "fyp"}, d \in {Missing, "0"},
     t \in {Missing, "stale"}, c \in {Missing, "0"}}

\* get_ms_token() or "": the cookie's value, or the empty text.
Tokens == {"", "fresh"}

\* One attempt builds its request.
BuildRequest ==
  /\ \E key \in RequestEndpoints, d \in DeviceIds, call \in CallParams, token \in Tokens :
       scope' = [fn |-> "fetch_api",
                 v |-> [key |-> key, base |-> SessionMapping(d), call |-> call,
                        token |-> token,
                        merged |-> merged_params(key, SessionMapping(d), call, token)]]
  /\ UNCHANGED <<apiVars, mergeVars>>

InitParams == ProgramInit /\ MergeIdle /\ PureIdle /\ ContextReady

NextParams == BuildRequest

SpecParams == InitParams /\ [][NextParams]_vars

(***************************************************************************)
(* Default file names.  A text is a sequence of pieces, each piece one     *)
(* character or a run of characters the functions never look into; the     *)
(* returned name is the concatenation of its pieces.                       *)
(***************************************************************************)
MaxIdLen == 3

\* Pieces identifiers are made of: the marks '@' and '#', the space, '/',
\* '?', a name, a suffix, a digit, and the words the patterns look for.
IdChars == {"@", "#", " ", "/", "?", "x", "_user_info", "7", "video", "tiktok.com"}

Identifiers == UNION {[1..n -> IdChars] : n \in 0..MaxIdLen}

\* Endpoint names passed by the save_* methods, and one name without a branch
\* of its own.
FileEndpoints ==
  {"user_videos", "user_info", "hashtag_videos", "video_comments", "related_videos",
   "trending", "search_videos", "search_users", "sound_videos", "sound_info",
   "playlist_videos", "playlist_info", "hashtag_info"}

\* `TIKTOK_BASE = "https://www.tiktok.com"` followed by "/"
BaseUrl == <<"https:", "/", "/", "www.", "tiktok.com", "/">>

\* "".join
RECURSIVE Cat(_)
Cat(s) == IF s = <<>> THEN "" ELSE Head(s) \o Cat(Tail(s))

\* str.lstrip(chars)
RECURSIVE lstrip(_, _)
lstrip(s, chars) ==
  IF s # <<>> /\ Head(s) \in chars THEN lstrip(Tail(s), chars) ELSE s

\* str.rstrip()
RECURSIVE rstrip(_)
rstrip(s) ==
  IF s # <<>> /\ s[Len(s)] = " " THEN rstrip(SubSeq(s, 1, Len(s) - 1)) ELSE s

\* str.strip()
strip(s) == rstrip(lstrip(s, {" "}))

\* str.replace("/", "_")
replace_slash(s) == [i \in 1..Len(s) |-> IF s[i] = "/" THEN "_" ELSE s[i]]

\* re.sub(r"\s+", "_", s): every run of whitespace becomes one "_".
RECURSIVE collapse_ws(_)
collapse_ws(s) ==
  IF s = <<>> THEN <<>>
  ELSE IF Head(s) = " " THEN <<"_">> \o collapse_ws(lstrip(s, {" "}))
  ELSE <<Head(s)>> \o collapse_ws(Tail(s))

\* re.sub(r"[^A-Za-z0-9_@\-\.]+", "", s)
drop_unsafe(s) == SelectSeq(s, LAMBDA c : c \notin {" ", "/", "?", "#", ":"})

\* _sanitize_filename_part
_sanitize_filename_part(s) ==
  LET t == strip(s) IN
    IF t = <<>> THEN <<"unknown">>
    ELSE LET u == drop_unsafe(collapse_ws(replace_slash(t))) IN
           IF u = <<>> THEN <<"unknown">> ELSE u

\* re.findall(URL_REGEX, url)[0] with URL_REGEX = (?<=\.com/)(.+?)(?=\?|$):
\* from the first place that follows ".com/" and has a character, the
\* shortest non-empty text that ends before a "?" or at the end.  <<>> stands
\* for no match.
UrlMatch(url) ==
  LET places == {i \in 3..Len(url) : url[i - 2] = "tiktok.com" /\ url[i - 1] = "/"} IN
    IF places = {} THEN <<>>
    ELSE LET i == CHOOSE a \in places : \A b \in places : a <= b
             ends == {k \in i..Len(url) : k = Len(url) \/ url[k + 1] = "?"}
             k == CHOOSE a \in ends : \A b \in ends : a <= b
         IN SubSeq(url, i, k)

\* _dom_style_base_name_from_url
_dom_style_base_name_from_url(url) ==
  LET base_name == IF UrlMatch(url) # <<>> THEN replace_slash(UrlMatch(url))
                   ELSE replace_slash(url)
  IN IF base_name = <<>> THEN <<"output">> ELSE base_name

\* re.search(VIDEO_ID_REGEX, s) with VIDEO_ID_REGEX = (?<=/video/)([0-9]+):
\* the longest run of digits at the first place that follows "/video/".
VideoIdMatch(s) ==
  LET places == {i \in 4..Len(s) : /\ s[i - 3] = "/" /\ s[i - 2] = "video"
                                   /\ s[i - 1] = "/" /\ s[i] = "7"} IN
    IF places = {} THEN <<>>
    ELSE LET i == CHOOSE a \in places : \A b \in places : a <= b
             ends == {k \in i..Len(s) : /\ \A j \in i..k : s[j] = "7"
                                        /\ (k = Len(s) \/ s[k + 1] # "7")}
             k == CHOOSE a \in ends : TRUE
         IN SubSeq(s, i, k)

\* `m.group(1) if m else _sanitize_filename_part(identifier)`
VideoIdOrSafe(identifier) ==
  IF VideoIdMatch(identifier) # <<>> THEN VideoIdMatch(identifier)
  ELSE _sanitize_filename_part(identifier)

\* `"tiktok.com" in identifier`
HasSiteName(s) == \E i \in 1..Len(s) : s[i] = "tiktok.com"

\* A naming that keeps the text before a leading '@' or '#'.
NameUnstripped(endpoint, ident) ==
  Cat(<<endpoint, "_">> \o replace_slash(ident) \o <<".csv">>)

\* _default_csv_filename(endpoint, identifier), the endpoint given in lower
\* case without surrounding whitespace as the save_* methods pass it.
_default_csv_filename(endpoint, ident) ==
  LET identifier == strip(ident)
      user == strip(lstrip(identifier, {"@"}))
      tag == strip(lstrip(identifier, {"#"}))
      safe == _sanitize_filename_part(identifier)
      page(path) == _dom_style_base_name_from_url(BaseUrl \o path)
  IN Cat(
    CASE endpoint = "user_videos" -> page(<<"@">> \o user) \o <<".csv">>
      [] endpoint = "user_info" -> page(<<"@">> \o user) \o <<"_user_info", ".csv">>
      [] endpoint = "hashtag_videos" -> page(<<"tag", "/">> \o tag) \o <<".csv">>
      [] endpoint = "video_comments" ->
           <<"comments_">> \o VideoIdOrSafe(identifier) \o <<".csv">>
      [] endpoint = "related_videos" ->
           IF HasSiteName(identifier)
           THEN _dom_style_base_name_from_url(identifier) \o <<".csv">>
           ELSE <<"related_">> \o VideoIdOrSafe(identifier) \o <<".csv">>
      [] endpoint = "trending" -> page(<<"foryou">>) \o <<".csv">>
      [] endpoint = "search_videos" -> page(<<"search", "/">> \o safe) \o <<".csv">>
      [] endpoint = "search_users" ->
           page(<<"search", "/", "user", "/">> \o safe) \o <<".csv">>
      [] endpoint = "sound_videos" -> page(<<"music", "/">> \o safe) \o <<".csv">>
      [] endpoint = "sound_info" -> page(<<"music", "/">> \o safe) \o <<"_info", ".csv">>
      [] endpoint = "playlist_videos" -> page(<<"playlist", "/">> \o safe) \o <<".csv">>
      [] endpoint = "playlist_info" ->
           page(<<"playlist", "/">> \o safe) \o <<"_info", ".csv">>
      [] OTHER ->
           <<endpoint, "_">> \o (IF identifier # <<>> THEN safe ELSE <<endpoint>>)
             \o <<".csv">>)

\* A save_* call without a file name: `filename = _default_csv_filename(...)`.
DefaultName ==
  /\ scope.fn = "_default_csv_filename" /\ fname.name = ""
  /\ scope' = [scope EXCEPT
                 !.v.name = _default_csv_filename(fname.endpoint, fname.identifier)]
  /\ UNCHANGED <<apiVars, mergeVars>>

\* A save_* call receives an endpoint's identifier and no file name.
InitNames ==
  /\ ProgramInit /\ MergeIdle
  /\ scope \in [fn : {"_default_csv_filename"},
                 v : [endpoint : FileEndpoints, identifier : Identifiers, name : {""}]]
  /\ ContextReady

NextNames == DefaultName

SpecNames == InitNames /\ [][NextNames]_vars

(***************************************************************************)
(* The scroll loops of src/DOM.py: get_video_urls and                      *)
(* save_tiktok_multi_page.  Only the number of URLs collected (saved)      *)
(* enters the loops' conditions, so the sets are kept by their size.       *)
(***************************************************************************)
MaxNewUrls == 1
MaxInitialUrls == 1

\* Values of `count`: none wanted, one, more than 300 iterations can
\* collect, and one with 3 * count above 300.
DomCounts == {0, 1, 11, 101}

DomLoops == {"get_video_urls", "save_tiktok_multi_page"}

\* `count * 3`
count_times_3(n) == n * 3

\* `max_no_new = 30`
max_no_new == 30

\* `max_scrolls = max(300, count * 3)`
max_scrolls(n) == IF count_times_3(n) > 300 THEN count_times_3(n) ELSE 300

\* A counter that only grows.
NoNewNeverReset(n, added) == n + 1

\* `if len(video_urls) == prev: no_new += 1 ... else: no_new = 0`
next_no_new(n, added) == IF added = 0 THEN n + 1 ELSE 0

\* The method is called: the page is opened and the URLs embedded in the
\* page's JSON are taken (saved) before the loop, in save_tiktok_multi_page
\* never more than count.
DomStart ==
  /\ scope = NoFrame
  /\ \E kind \in DomLoops, n \in DomCounts, initial \in 0..MaxInitialUrls :
       scope' = [fn |-> "scroll",
                 v |-> [pc |-> "loop", kind |-> kind, count |-> n,
                        urls |-> IF kind = "save_tiktok_multi_page" /\ initial > n
                                 THEN n ELSE initial,
                        no_new |-> 0, iter |-> 0]]
  /\ UNCHANGED <<apiVars, mergeVars>>

\* The for loop ends: its range is used up, or `break` at the head of an
\* iteration because count URLs are there.
DomLoopEnd ==
  /\ dpc = "loop"
  /\ diter = max_scrolls(dcount) \/ durls >= dcount
  /\ scope' = [scope EXCEPT !.v.pc = "done"]
  /\ UNCHANGED <<apiVars, mergeVars>>

\* One iteration: the links of the page are read and the allowed new ones
\* added (in save_tiktok_multi_page: saved, at most up to count, a failed
\* save adding nothing); without a new URL no_new grows and the loop breaks
\* at max_no_new, else no_new is reset; then the page is scrolled.  A script
\* or scroll error that is not caught ends the method.
DomIterate ==
  /\ dpc = "loop"
  /\ diter < max_scrolls(dcount) /\ durls < dcount
  /\ \E added \in 0..MaxNewUrls, raises \in BOOLEAN :
       LET room == dcount - durls
           k == IF dkind = "save_tiktok_multi_page" /\ added > room THEN room ELSE added
       IN scope' = [scope EXCEPT
                      !.v.iter = diter + 1,
                      !.v.urls = durls + k,
                      !.v.no_new = next_no_new(dno_new, k),
                      !.v.pc = IF k = 0 /\ next_no_new(dno_new, k) >= max_no_new
                               THEN "done"
                               ELSE IF raises THEN "raised" ELSE "loop"]
  /\ UNCHANGED <<apiVars, mergeVars>>

InitDom == ProgramInit /\ MergeIdle /\ PureIdle /\ ContextReady

NextDom ==
  \/ DomStart
  \/ DomLoopEnd
  \/ DomIterate

SpecDom == InitDom /\ [][NextDom]_vars

(***************************************************************************)
(* Pyktok.save_tiktok_multi_page: the URLs it hands to _save_one and what  *)
(* it counts.  URLs are numbers; both loops of the method offer the URLs   *)
(* they find, in any order and any number of times.                        *)
(***************************************************************************)
MaxUrl == 3
MaxOffers == 4
MaxSaveCount == 2

Urls == 1..MaxUrl

\* What one save_tiktok call does: it persists a video file or a metadata
\* row and returns, it finds no video data on the page and returns None, it
\* raises StaleElementReferenceException, or it raises another exception.
SaveOutcomes == {"persisted", "no_data", "stale", "raises"}

\* save_tiktok returned (it did not raise).
Returned(o) == o \in {"persisted", "no_data"}

\* _save_one(video_url) with the outcomes o1 and o2 of its first and second
\* save_tiktok call: `if video_url in seen or saved >= count: return`, then
\* at most two attempts; a call that returns is followed by seen.add and
\* saved += 1, a stale reference by one more attempt, any other exception
\* by nothing.  persisted is the set of URLs for which save_tiktok wrote
\* something, counted the URLs in the order they were counted.
_save_one(v, url, o1, o2) ==
  IF url \in v.seen \/ v.saved >= v.count THEN v
  ELSE LET o == IF o1 = "stale" THEN o2 ELSE o1 IN
         IF Returned(o)
         THEN [v EXCEPT !.seen = @ \cup {url}, !.saved = @ + 1,
                        !.counted = Append(@, url),
                        !.persisted = IF o = "persisted" THEN @ \cup {url} ELSE @]
         ELSE v

\* save_tiktok_multi_page is not running.
MultiIdle == [pc |-> "idle", count |-> 0, seen |-> {}, saved |-> 0, counted |-> <<>>,
              persisted |-> {}, offers |-> 0]

\* The locals of save_tiktok_multi_page: pc ("loop", "done"), count, seen,
\* saved, and what was counted and persisted.
multi == IF scope.fn = "save_tiktok_multi_page" THEN scope.v ELSE MultiIdle

\* A URL found in the page's JSON or among the links of the DOM, under
\* `if saved >= count: break`, handed to _save_one.
OfferUrl ==
  /\ scope.fn = "save_tiktok_multi_page"
  /\ multi.pc = "loop"
  /\ multi.offers < MaxOffers
  /\ multi.saved < multi.count
  /\ \E url \in Urls, o1 \in SaveOutcomes, o2 \in SaveOutcomes :
       scope' = [scope EXCEPT
                   !.v = [_save_one(multi, url, o1, o2) EXCEPT !.offers = @ + 1]]
  /\ UNCHANGED <<apiVars, mergeVars>>

\* The scroll loop ends (saved >= count, 30 scrolls without a new URL, or
\* the range used up) and the method returns.
MultiReturn ==
  /\ scope.fn = "save_tiktok_multi_page"
  /\ multi.pc = "loop"
  /\ scope' = [scope EXCEPT !.v.pc = "done"]
  /\ UNCHANGED <<apiVars, mergeVars>>

InitMulti ==
  /\ ProgramInit /\ MergeIdle
  /\ scope \in [fn : {"save_tiktok_multi_page"},
                 v : [pc : {"loop"}, count : 0..MaxSaveCount, seen : {{}}, saved : {0},
                      counted : {<<>>}, persisted : {{}}, offers : {0}]]
  /\ ContextReady

NextMulti ==
  \/ OfferUrl
  \/ MultiReturn

SpecMulti == InitMulti /\ [][NextMulti]_vars

TypeOK ==
  /\ pc \in {"idle", "info", "loop", "out", "search", "sout", "ret"}
  /\ fpc \in {"none", "start", "sign", "attempt", "ret"}
  /\ count \in Counts
  /\ params \in {0} \cup DeviceIds
  /\ fkey \in HIDDEN_API_ENDPOINTS \cup {"none"}
  /\ op \in Ops \cup {"none"}
  /\ outcome \in {"none", "returned", "raised"}

(***************************************************************************)
(* Properties of fetch_api.                                                *)
(***************************************************************************)
\* C1: one fetch_api call makes at most 5 attempts (iterations of the retry
\* loop, each with at most one network call): inside the loop the attempt
\* number is between 1 and 5 and is one more than the attempts already made,
\* so the loop cannot spin; the wait for the signing capability makes at most
\* 5 passes and no network attempt; a body is returned only by an attempt.
C1_AttemptCap ==
  /\ attemptsMade <= 5
  /\ fpc = "attempt" => (attempt \in 1..5 /\ attemptsMade = attempt - 1)
  /\ fpc = "sign" => (attempt \in 0..4 /\ attemptsMade = 0)
  /\ fpc = "ret" => (fres.none \/ attemptsMade >= 1)

\* A fetch_api call that returned None after its fifth network attempt.
C1_FiveAttemptsThenNone ==
  fpc = "ret" /\ fres.none /\ attemptsMade = 5 /\ attempt = 5

\* C2: when every attempt before the last met an empty or too-short body and
\* the last met a body with an expected success key, the call returns a body
\* with that key after k+1 network attempts and k retry delays; empty bodies
\* alone never end the call before the fifth attempt.
C2_EmptyThenSuccess ==
  /\ (fpc = "ret" /\ lastKind = "keyed" /\ empties = attemptsMade - 1)
       => /\ ~fres.none
          /\ fres.lkey \in _expected_keys(fkey)
          /\ attemptsMade = empties + 1
          /\ delays = empties
  /\ (fpc = "ret" /\ fres.none /\ attemptsMade >= 1 /\ empties = attemptsMade)
       => attemptsMade = 5

\* Two empty bodies, then a body with the success key: three attempts, two delays.
C2_TwoEmptyThenBody ==
  /\ fpc = "ret" /\ ~fres.none /\ lastKind = "keyed"
  /\ empties = 2 /\ attemptsMade = 3 /\ delays = 2

(***************************************************************************)
(* Properties of the listing operations.                                   *)
(***************************************************************************)
\* C3 as stated: once the hashtag listing endpoint has answered the first
\* attempt of the call's first listing request with the block code, the call
\* sends no further request to the listing endpoint, and it returns having
\* entered the search fallback exactly once.
C3_NoFurtherListingRequest ==
  (op = "hashtag_videos" /\ blockedFirst)
    => /\ listFetches <= 1
       /\ pc = "ret" => fallbacks = 1

\* C3 amended: the block code ends the fetch_api call that met it at once
\* (no further network attempt, failure returned); get_hashtag_videos
\* counts at most 4 failed listing requests, enters the search fallback at
\* most once and only at the 4th, runs at most two fallback queries, and
\* requests the listing endpoint no more once the fallback is entered.
C3_BlockEndsFetchOnly ==
  /\ (fpc = "ret" /\ blockedAt # 0) => (fres.none /\ attemptsMade = blockedAt)
  /\ op = "hashtag_videos"
       => /\ failures <= max_blocked_retries + 1
          /\ fallbacks <= 1
          /\ searchCalls <= 2
          /\ fallbacks = 1 <=> failures = max_blocked_retries + 1
          /\ fallbacks = 1 => (pc \in {"search", "sout", "ret"} /\ fkey # "hashtag_videos")
          /\ pc \in {"search", "sout"} => fallbacks = 1

\* A call whose first listing request was blocked at once, which retried the
\* listing endpoint and returned through the fallback.
C3_BlockedThenFallback ==
  /\ op = "hashtag_videos" /\ pc = "ret"
  /\ blockedFirst /\ listFetches = 2 /\ failures = 4 /\ fallbacks = 1

\* C4: every listing operation returns at most count items.
C4_AtMostCount ==
  (pc = "ret" /\ op \in ListingOps) => Len(result) <= count

\* A hashtag call whose accumulated and fallback items together exceed count.
C4_FallbackTruncated ==
  /\ pc = "ret" /\ op = "hashtag_videos" /\ fallbacks = 1
  /\ Len(videos) + Len(fbItems) > count
  /\ Len(result) = count

NoDuplicates(s) == \A i, j \in 1..Len(s) : i # j => s[i] # s[j]

\* The returned list is the fetched pages' items in order, then the fallback
\* items, cut at count.
PageOrder ==
  (pc = "ret" /\ op \in ListingOps) => result = Take(fetched \o fbItems, count)

\* C5 as stated: the returned list is the fetched items in page order cut at
\* count, and no item occurs in it twice.
C5_OrderNoDuplicates ==
  (pc = "ret" /\ op \in ListingOps)
    => /\ result = Take(fetched \o fbItems, count)
       /\ NoDuplicates(result)

\* C6 as stated: every get_user_videos call ends.
C6_UserVideosEnds == (op = "user_videos") ~> (op # "user_videos")

\* C7: no page is requested while the accumulator holds count items or more,
\* and the accumulator never holds more than count items.
C7_NoFetchAtTarget ==
  /\ (pc = "loop" /\ fpc # "none") => Len(videos) < count
  /\ (pc = "search" /\ fpc # "none") => Len(svideos) < count
  /\ Len(videos) <= count /\ Len(svideos) <= count

\* The first page, with the continuation flag true, filled the target.
C7_FullFirstPage ==
  /\ pc = "loop" /\ fpc = "none" /\ op = "user_videos"
  /\ count = MaxCount /\ Len(videos) = count /\ listFetches = 1

\* C8: get_user_videos never counts a 5th consecutive failure; at the 4th it
\* has returned the items of the pages fetched before, in order, cut at count.
C8_PartialAfterFourFailures ==
  op = "user_videos"
    => /\ failures <= 4
       /\ failures = 4 => (pc = "ret" /\ result = Take(fetched, count))

\* A partial, non-empty result returned at the 4th consecutive failure.
C8_PartialReturned ==
  /\ op = "user_videos" /\ pc = "ret" /\ failures = 4
  /\ count = 2 /\ Len(result) = 1

\* C9 as stated: the session parameters are invalidated only when at least
\* two consecutive fetches have failed.
C9_OnlyAfterTwoFailures == invalidated => failures >= 2

\* C9 amended: the session parameters are invalidated exactly by the steps of
\* get_user_videos and get_hashtag_videos that retry after a failed fetch_api
\* call, the first failure included, never between the attempts inside
\* fetch_api; every fetch_api call runs with derived parameters.
C9_InvalidatedOnEveryRetry ==
  /\ [][(params # 0 /\ params' = 0)
          <=> (/\ pc = "loop" /\ fpc = "ret" /\ fres.none
               /\ op \in {"user_videos", "hashtag_videos"}
               /\ pc' = "loop")]_vars
  /\ [](fpc \in {"sign", "attempt", "ret"} => params # 0)

\* The parameters invalidated after the first failed fetch of a listing.
C9_InvalidatedAfterOneFailure ==
  invalidated /\ params = 0 /\ op = "user_videos" /\ failures = 1 /\ pc = "loop"

(***************************************************************************)
(* Properties of the persistence.                                          *)
(***************************************************************************)
\* Record keys a file holds (a row without a key column holds none).
FileKeys(file) == Range(file.rows) \ {""}

\* C10 as stated: no save run removes a key from a file.
C10_KeysNeverShrink ==
  [][\A f \in Ops : FileKeys(files[f]) \subseteq FileKeys(files'[f])]_vars

(***************************************************************************)
(* Properties of merge-and-write.                                          *)
(***************************************************************************)
RowSet(file) == Range(file.rows)

FileKeyTexts(file) == {file.rows[i].key : i \in 1..Len(file.rows)}

KeyRows(file, k) == {r \in Range(file.rows) : r.key = k}

\* The first row of the frame with key k, as the text row it is written as.
FirstWithKey(frame, k) ==
  LET i == CHOOSE i \in 1..Len(frame) :
             /\ frame[i].key.s = k
             /\ \A j \in 1..(i - 1) : frame[j].key.s # k
  IN [key |-> k, val |-> frame[i].val]

\* Every key handed over so far is a canonical numeral or the empty text.
CanonicalKeys == mkeys \subseteq CanonTexts \cup {""}

\* C11 as stated: a call that merges and writes the rows of the call before
\* it leaves the row set of the file unchanged.
C11_RepeatKeepsRows ==
  [][(mcalls >= 1 /\ mcalls' = mcalls + 1 /\ mnew' = mnew)
       => RowSet(mfile') = RowSet(mfile)]_vars

\* C12 as stated: after a merge, a key that was in the file and in the new
\* rows has the rows it had in the file; a key that was only in the new rows
\* has one row, the first of the new rows with that key.
C12_DiskRowWins ==
  [][(mcalls' = mcalls + 1 /\ moutcome' = "written")
       => \A k \in FrameKeys(mnew') :
            IF k \in FileKeyTexts(mfile)
            THEN KeyRows(mfile', k) = KeyRows(mfile, k)
            ELSE KeyRows(mfile', k) = {FirstWithKey(mnew', k)}]_vars

\* C13 as stated: a file built by merges from a missing file holds exactly
\* the keys handed over, each in one row.
C13_KeysAreUnion ==
  mfile.kind = "rows"
    => /\ FileKeyTexts(mfile) = mkeys
       /\ Cardinality(FileKeyTexts(mfile)) = Len(mfile.rows)

\* The three statements for keys whose text survives the read of the file.
MergeOnCanonicalKeys ==
  /\ [](CanonicalKeys => C13_KeysAreUnion)
  /\ [][CanonicalKeys' =>
         /\ (mcalls >= 1 /\ mcalls' = mcalls + 1 /\ mnew' = mnew)
              => RowSet(mfile') = RowSet(mfile)
         /\ (mcalls' = mcalls + 1 /\ moutcome' = "written")
              => \A k \in FrameKeys(mnew') :
                   IF k \in FileKeyTexts(mfile)
                   THEN KeyRows(mfile', k) = KeyRows(mfile, k)
                   ELSE KeyRows(mfile', k) = {FirstWithKey(mnew', k)}]_vars

(***************************************************************************)
(* Properties of the last-good cache.                                      *)
(***************************************************************************)
\* The save_*_csv wrapper of a listing finishes with no item refetched, right
\* after a call of the same method with the same count that returned items.
SaveAfterGoodCall ==
  /\ pc = "ret" /\ pc' = "idle"
  /\ op \in ListingOps /\ result = <<>>
  /\ lastCall.op = op /\ lastCall.count = count /\ lastCall.items # <<>>

\* C14 as stated: when a listing call returned N > 0 items, by whichever exit,
\* and the next save of the same entity and count refetches nothing, the save
\* writes those N items: the file holds a row for each of them.
C14_SaveWritesLastItems ==
  [][SaveAfterGoodCall =>
       /\ outcome' = "returned"
       /\ files'[op].kind = "rows"
       /\ \A i \in 1..Len(lastCall.items) :
            AsStr(lastCall.items[i]) \in Range(files'[op].rows)]_vars

\* The part of C14 that the code keeps: after a call that left through the end
\* of its loop, the cached list is the returned one and the save writes it.
SaveWritesCachedItems ==
  [][(SaveAfterGoodCall /\ cache[CacheKeyOf(op)] = PyList(lastCall.items)) =>
       /\ outcome' = "returned"
       /\ files'[op].kind = "rows"
       /\ \A i \in 1..Len(lastCall.items) :
            AsStr(lastCall.items[i]) \in Range(files'[op].rows)]_vars

\* None, the empty list and the empty mapping.
EmptyValues == {PyNone, PyList(<<>>), [t |-> "dict", v |-> <<>>]}

\* Values handed to _cache_set: the empty ones and a non-empty list.
SampleValues == EmptyValues \cup {PyList(<<1>>)}

\* C15: no cache entry holds None, an empty list or an empty mapping; a
\* _cache_set call with such a value leaves the cache as it is, and a call
\* with a non-empty value replaces the entry of that key and no other (tried
\* on the cache every get_* method returns with); so a step of the program
\* changes at most one entry, to a non-empty value.
C15_CacheHoldsNoEmptyValue ==
  /\ [](\A k \in CacheKeys : cache[k] \notin EmptyValues)
  /\ [](pc = "ret" => \A k \in CacheKeys, v \in SampleValues :
          /\ v \in EmptyValues => _cache_set(cache, k, v) = cache
          /\ v \notin EmptyValues =>
               /\ _cache_set(cache, k, v)[k] = v
               /\ \A j \in CacheKeys \ {k} : _cache_set(cache, k, v)[j] = cache[j])
  /\ [][\/ cache' = cache
        \/ \E k \in CacheKeys :
             /\ cache'[k] \notin EmptyValues \cup {Absent}
             /\ \A j \in CacheKeys \ {k} : cache'[j] = cache[j]]_vars

\* get_user_videos left through the end of its loop with an empty list: the
\* _cache_set call left the cache, which holds the user's detail, as it was.
C15_EmptyListNotStored ==
  /\ pc = "ret" /\ op = "user_videos" /\ result = <<>>
  /\ listFetches >= 1 /\ failures = 0
  /\ cache["user_detail"].t = "dict"
  /\ cache["user_videos"] = Absent

\* C16 as stated: save_user_info_csv whose fetch returns nothing, while an
\* earlier response of the same user is cached, writes the cached response
\* and not an empty result.
C16_InfoSaveUsesCache ==
  [][(/\ pc = "ret" /\ pc' = "idle"
      /\ op = "user_info" /\ result = <<>>
      /\ cache["user_detail"].t = "dict") =>
       /\ files'[op].kind = "rows"
       /\ InfoCell(cache["user_detail"].v[1]) \in Range(files'[op].rows)]_vars

(***************************************************************************)
(* Error handling.                                                         *)
(***************************************************************************)
\* C17 as stated: a fetch_api call for a known endpoint ends by returning a
\* parsed body or None, whatever script execution, navigation, signing and
\* the network call do: a call in progress stays in progress or returns.
C17_FetchAlwaysReturns ==
  [][(fpc \in {"start", "sign", "attempt"}) =>
       (fpc' \in {"start", "sign", "attempt", "ret"})]_vars

\* C18 as stated: with the context established, no get_* or save_*_csv call
\* ends with an error at its caller.
C18_NoErrorReachesCaller == outcome # "raised"

(***************************************************************************)
(* Properties of start().                                                  *)
(***************************************************************************)
\* Failed creation attempts of the current start() call.
FailedAttempts == IF sdriver # 0 /\ spc = "post" THEN tried - 1 ELSE tried

\* C19: start() makes at most 3 creation attempts; the delay after a failed
\* attempt is strictly longer than the one after the previous failed attempt
\* and the last attempt is followed by none; at the head of every attempt no
\* instance is owned and quit() has been called on every instance created so
\* far; when all attempts failed the call ends with the fatal error, owning
\* no instance.
C19_StartRetries ==
  /\ tried <= max_attempts
  /\ sattempt <= max_attempts
  /\ \A i \in 1..(Len(waits) - 1) : waits[i] < waits[i + 1]
  /\ spc = "create" => /\ Len(waits) = tried
                        /\ sattempt = tried + 1
                        /\ sdriver = 0
                        /\ quits = 1..made
  /\ spc = "post" => Len(waits) = IF FailedAttempts = max_attempts
                                   THEN max_attempts - 1 ELSE FailedAttempts
  /\ (spc = "post" /\ sdriver = 0) => tried = max_attempts
  /\ soutcome = "fatal" => /\ tried = max_attempts
                            /\ sdriver = 0
                            /\ quits = 1..made
                            /\ Len(waits) = max_attempts - 1

\* All three attempts failed, one of them after its instance was created:
\* delays of 2 and 4 seconds, the instance released, the fatal error raised.
C19_ThreeFailuresFatal ==
  /\ soutcome = "fatal" /\ tried = 3
  /\ waits = <<2, 4>>
  /\ made >= 1 /\ quits = 1..made /\ sdriver = 0

(***************************************************************************)
(* Properties of the wait for the signing capability.                      *)
(***************************************************************************)
\* C20: one fetch_api call checks the signing capability at most 5 times
\* (every check that finds it absent is followed by one navigation and every
\* further check is a new pass of the loop); a call that ends in the wait has
\* made no network attempt, and when it returns it returns None after the
\* fifth check; once a check found the capability no navigation of the wait
\* happens any more in that call.
C20_SignWaitBounded ==
  /\ [](fpc = "sign" => (attempt < max_sign_attempts /\ attemptsMade = 0))
  /\ []((fpc = "ret" /\ attemptsMade = 0) =>
          (fres = NoneBody /\ attempt = max_sign_attempts - 1 /\ signNav))
  /\ [](signNav => (attemptsMade = 0 /\ fpc # "attempt"))
  /\ [][(fpc = "sign" /\ fpc' = "sign") => (attempt' = attempt + 1 /\ signNav')]_vars
  /\ [][(fpc = "attempt") => ~signNav']_vars

\* Five checks found the capability absent: the call returned None without
\* a network attempt, after the navigation that follows the fifth check.
C20_FiveChecksThenNone ==
  /\ fpc = "ret" /\ fres = NoneBody
  /\ attempt = 4 /\ attemptsMade = 0 /\ signNav

(***************************************************************************)
(* Properties of the request parameters.                                   *)
(***************************************************************************)
\* Call-specific params override the session mapping, and the token read for
\* the attempt overrides both.
OverridesHold ==
  req.key # "none" =>
    /\ req.merged["msToken"] = req.token
    /\ \A k \in ParamNames \ {"msToken"} :
         req.call[k] # Missing => req.merged[k] = req.call[k]
    /\ \A k \in ParamNames \ {"msToken", "from_page"} :
         req.call[k] = Missing => req.merged[k] = req.base[k]

\* C21 as stated: a request to an endpoint with its own origin hint whose
\* call-specific params supply no from_page carries that hint; call-specific
\* params override session params and the token overrides both.
C21_OriginHintCarried ==
  /\ OverridesHold
  /\ (req.key # "none" /\ OriginHint(req.key) # Missing /\ req.call["from_page"] = Missing)
       => req.merged["from_page"] = OriginHint(req.key)

C23_NeverHandsDeadContext == soutcome = "handed" => sdriver \notin dead

\* Instances created and not yet passed to quit().
Unreleased == (1..made) \ quits

\* C24: across specify_browser, operations and close, at most one browser
\* instance is created and not yet released, and it is the one the facade
\* owns; while start() is about to make an attempt none is left from a failed
\* attempt or from an earlier context; after specify_browser the previous
\* facade's instance is released and the new facade owns none.
C24_AtMostOneInstance ==
  /\ Cardinality(Unreleased) <= 1
  /\ Unreleased = IF sdriver = 0 THEN {} ELSE {sdriver}
  /\ spc = "create" => Unreleased = {}
  /\ soutcome = "specified" => (api /\ sdriver = 0 /\ Unreleased = {})
  /\ ~api => sdriver = 0

\* Two contexts were started one after the other, the second after a
\* specify_browser or close, and specify_browser has released the second.
C24_SecondContextReplaced ==
  soutcome = "specified" /\ made >= 2 /\ quits = 1..made /\ starts = 2

\* C25: stop() leaves the facade without an instance whether quit() returns
\* or raises, the error of quit() never reaches the caller, and a stop() of
\* a facade without an instance calls no quit() and changes nothing else.
C25_StopAlwaysReleases ==
  /\ [](soutcome \in {"stopped", "closed", "specified"} => (sdriver = 0 /\ ~sready))
  /\ [][(spc = "idle" /\ nquit' # nquit) =>
          (sdriver' = 0 /\ soutcome' \in {"stopped", "closed", "specified"}
             /\ nquit' = nquit + 1 /\ quits' = quits \cup {sdriver})]_vars
  /\ [][(sdriver = 0 /\ soutcome' = "stopped") =>
          UNCHANGED <<spc, sdriver, sattempt, waits, tried, made, quits, starts,
                      sready, api, dead, nquit>>]_vars

\* stop() has run on a started context, quit() raised, and the facade owns
\* no instance.
C25_StoppedThoughQuitRaised ==
  soutcome = "stopped" /\ quitRaised /\ sdriver = 0 /\ nquit = 1 /\ made = 1

(***************************************************************************)
(* Properties of the default file names.                                   *)
(***************************************************************************)
\* An identifier as the entity is named: no surrounding whitespace, no
\* leading '@' or '#'.
IsBare(ident) ==
  ident # <<>> => (Head(ident) \notin {" ", "@", "#"} /\ ident[Len(ident)] # " ")

\* Spellings of a bare identifier that denote the same entity for an endpoint.
Spellings(endpoint, ident) ==
  LET marks == CASE endpoint \in {"user_videos", "user_info"} -> {<<>>, <<"@">>}
                 [] endpoint = "hashtag_videos" -> {<<>>, <<"#">>}
                 [] OTHER -> {<<>>}
      pads == {<<>>, <<" ">>, <<" ", " ">>}
  IN {l \o m \o ident \o r : l \in pads, m \in marks, r \in pads}

\* C26: the default file name is a function of (endpoint, identifier) alone
\* and every spelling of the identifier that denotes the same entity ('@'
\* before a user name, '#' before a hashtag, surrounding whitespace) gets the
\* same name.
C26_SameEntitySameName ==
  (fname.name # "" /\ IsBare(fname.identifier)) =>
     \A v \in Spellings(fname.endpoint, fname.identifier) :
        _default_csv_filename(fname.endpoint, v) = fname.name

\* A name was derived for a user given with its '@' and a space after it.
C26_MarkedUserNamed ==
  /\ fname.endpoint = "user_videos" /\ fname.identifier = <<"@", "x", " ">>
  /\ fname.name = "@x.csv"

\* Identifiers of one piece that is neither a mark nor whitespace.
ShortIdentifiers == {i \in Identifiers : Len(i) = 1 /\ IsBare(i)}

\* C27: a request for a named entity (an identifier that is not empty, has
\* no mark before it and no whitespace around it) never gets the default
\* file name of a request of another endpoint for a named entity (here: one
\* whose identifier is a single piece).
C27_NoCollisionAcrossEndpoints ==
  (fname.name # "" /\ fname.identifier # <<>> /\ IsBare(fname.identifier)) =>
     \A endpoint \in FileEndpoints \ {fname.endpoint}, ident \in ShortIdentifiers :
        _default_csv_filename(endpoint, ident) # fname.name

(***************************************************************************)
(* Properties of the DOM scroll loops.                                     *)
(***************************************************************************)
\* C28: a scroll loop begins at most max(300, 3 * count) iterations and
\* begins none after 30 consecutive iterations without a new URL; an
\* iteration that adds a URL sets no_new to 0, one that adds none raises it
\* by one; with count URLs collected (saved) no further iteration begins,
\* and the loop ends only for one of these reasons or by an error.
C28_ScrollLoopBounded ==
  /\ [](diter <= (IF 3 * dcount > 300 THEN 3 * dcount ELSE 300))
  /\ [](dpc = "loop" => dno_new < 30)
  /\ [](dpc = "done" =>
          \/ durls >= dcount
          \/ dno_new = 30
          \/ diter = (IF 3 * dcount > 300 THEN 3 * dcount ELSE 300))
  /\ [][diter' = diter + 1 =>
          /\ durls < dcount /\ dno_new < 30
          /\ dno_new' = (IF durls' > durls THEN 0 ELSE dno_new + 1)]_vars
  /\ [][(dpc = "loop" /\ durls >= dcount) => (dpc' = "done" /\ diter' = diter)]_vars

\* save_tiktok_multi_page with count 101 has used all 303 iterations of its
\* range: URLs kept arriving often enough to reset no_new, never 101 of them.
C28_RangeUsedUp ==
  /\ dkind = "save_tiktok_multi_page" /\ dcount = 101 /\ dpc = "done"
  /\ diter = 303 /\ durls < dcount /\ dno_new < 30 /\ durls >= 10

C30_BlockCodeEndsCall ==
  /\ [][(fpc = "attempt" /\ attemptsMade' = attemptsMade + 1 /\ lastKind' = "blocked")
          => /\ fkey = "hashtag_videos"
             /\ fpc' = "ret" /\ fres'.none
             /\ delays' = delays /\ navs' = navs /\ attempt' = attempt]_vars
  /\ [][(fpc = "attempt" /\ attemptsMade' = attemptsMade + 1 /\ lastKind' = "failed")
          => IF attempt < 5
             THEN fpc' = "attempt" /\ attempt' = attempt + 1 /\ delays' = delays + 1
             ELSE fpc' = "ret" /\ fres'.none /\ delays' = delays]_vars
  /\ [](((fpc = "ret" /\ lastKind = "blocked") => (fres.none /\ attemptsMade = blockedAt)))

\* A listing request for hashtag_videos was refused with another answer on
\* its first attempt, waited, met the block code on the second and returned
\* None there.
C30_BlockedOnSecondAttempt ==
  /\ fkey = "hashtag_videos" /\ fpc = "ret" /\ lastKind = "blocked" /\ fres.none
  /\ attemptsMade = 2 /\ blockedAt = 2 /\ delays = 1 /\ navs = 0

(***************************************************************************)
(* C31: what fetch_api returns as a success.                               *)
(***************************************************************************)
\* C31: a parsed body is the result of fetch_api only if it has statusCode 0
\* or carries at least one expected success key of the requested endpoint;
\* when the latest attempt met a body with neither, the call that has
\* returned has returned None, so the pagination loop gets no page from it.
C31_OnlySuccessBodiesReturned ==
  /\ ~fres.none => (fres.sc = 0 \/ fres.lkey \in _expected_keys(fkey))
  /\ (fpc = "ret" /\ lastKind \in {"failed", "blocked"}) => fres.none

\* Witness of C31: a listing call returned a body accepted for its statusCode 0
\* alone (no expected key), after an attempt that met a body with neither.
C31_StatusZeroAccepted ==
  /\ fpc = "ret" /\ fkey = "user_videos" /\ ~fres.none
  /\ fres.sc = 0 /\ fres.lkey \notin _expected_keys(fkey)
  /\ attemptsMade = 2 /\ lastKind = "status0"

(***************************************************************************)
(* C32: recovery after an empty or too-short body.                         *)
(***************************************************************************)
\* C32: an attempt that got an empty or too-short body (a transport failure
\* included) and is not the last allowed one is followed, before the next
\* attempt, by exactly one recovery navigation and one delay, whether or not
\* that navigation raised; the last allowed attempt is followed by neither
\* and the call returns None; no other attempt makes a recovery navigation.
C32_RecoveryBeforeRetry ==
  [][(fpc = "attempt" /\ attemptsMade' = attemptsMade + 1)
       => /\ (empties' = empties + 1 /\ attempt < max_retries)
               => /\ navs' = navs + 1 /\ delays' = delays + 1
                  /\ fpc' = "attempt" /\ attempt' = attempt + 1
                  /\ outcome' = outcome
          /\ (empties' = empties + 1 /\ attempt = max_retries)
               => /\ navs' = navs /\ delays' = delays
                  /\ recovery' = recovery
                  /\ fpc' = "ret" /\ fres'.none
          /\ empties' = empties => (navs' = navs /\ recovery' = recovery)]_vars

\* Witness of C32: the call is at its third attempt after two empty bodies,
\* two recovery navigations and two delays, and the latest navigation raised.
C32_RaisedNavigationThenRetry ==
  /\ fpc = "attempt" /\ attempt = 3 /\ empties = 2 /\ attemptsMade = 2
  /\ navs = 2 /\ delays = 2 /\ recovery.raised

(***************************************************************************)
(* C33: get_hashtag_videos, session refreshes and the search fallback.     *)
(***************************************************************************)
\* C33: in one get_hashtag_videos call every session refresh follows one of
\* the first 3 failed page fetches (so there are at most 3), the 4th failed
\* page fetch enters the search fallback with the query '#tag', the second
\* query (without '#') is issued exactly when the first returned nothing, and
\* the call then returns the accumulated items followed by the fallback's
\* items, cut at count.
C33_ThreeRefreshesThenFallback ==
  [][op = "hashtag_videos"
       => /\ (pc = "loop" /\ invalidated')
               => (fres.none /\ failures' = failures + 1
                   /\ failures' <= max_blocked_retries /\ pc' = "loop")
          /\ (pc = "loop" /\ fpc = "ret" /\ fres.none /\ pc' # "idle")
               => IF failures < max_blocked_retries
                  THEN invalidated' /\ pc' = "loop" /\ fallbacks' = fallbacks
                  ELSE /\ failures = max_blocked_retries
                       /\ ~invalidated' /\ pc' = "search" /\ caller' = "fb1"
                       /\ fallbacks' = 1
          /\ (caller' = "fb2" /\ caller # "fb2")
               => (caller = "fb1" /\ pc = "sout" /\ Take(svideos, count) = <<>>)
          /\ (pc = "sout" /\ caller = "fb1" /\ pc' = "ret")
               => Take(svideos, count) # <<>>
          /\ (pc = "sout" /\ caller \in {"fb1", "fb2"} /\ pc' = "ret")
               => result' = Take(videos \o Take(svideos, count), count)]_vars

\* Witness of C33: the call returned after a successful page, four failed
\* page fetches and a fallback whose first query found nothing and whose
\* second query found an item: the page's item followed by the fallback's.
C33_PageThenFallbackReturned ==
  /\ op = "hashtag_videos" /\ pc = "ret" /\ failures = 4 /\ fallbacks = 1
  /\ searchCalls = 2 /\ count = 2
  /\ Len(fetched) = 1 /\ Len(fbItems) >= 1
  /\ result = Take(fetched \o fbItems, count) /\ Len(result) = 2

(***************************************************************************)
(* C34: the cookies and the navigations of start().                        *)
(***************************************************************************)
\* Position of command c in the sequence s (0 when absent).
PositionOf(s, c) == IF \E i \in 1..Len(s) : s[i] = c
                    THEN CHOOSE i \in 1..Len(s) : s[i] = c ELSE 0

\* C34 as stated: when start() injects cookies, it does so before every
\* navigation to the site: the home page and the content pages.
C34_CookiesBeforeAnyNavigation ==
  "cookies" \in Range(steps)
    => \A c \in {"home", "foryou", "profile"} :
         c \in Range(steps) => PositionOf(steps, "cookies") < PositionOf(steps, c)

\* C34 amended: when start() injects cookies, the home page has been loaded
\* before (and only the home page), and every navigation to a content page
\* comes after the injection; a start() whose home navigation raises never
\* injects them.
C34_CookiesAfterHomeBeforeContent ==
  "cookies" \in Range(steps)
    => /\ PositionOf(steps, "home") = PositionOf(steps, "cookies") - 1
       /\ PositionOf(steps, "timeout") = 1 /\ PositionOf(steps, "home") = 2
       /\ \A c \in {"foryou", "profile"} :
            c \in Range(steps) => PositionOf(steps, "cookies") < PositionOf(steps, c)

\* Witness of C34: a start() with a cookie jar ran to its end.
C34_StartedWithCookies ==
  /\ soutcome = "started" /\ sready
  /\ steps = <<"timeout", "home", "cookies", "foryou", "profile">>

(***************************************************************************)
(* C35: the failure counters of the listing loops.                         *)
(***************************************************************************)
\* C35: in get_user_videos and get_hashtag_videos a successful page sets the
\* failure counter that ends the listing back to zero, so that only
\* consecutive failed page fetches count towards the cap.
C35_SuccessResetsFailureCounter ==
  [][(op \in {"user_videos", "hashtag_videos"} /\ pc = "loop" /\ fpc = "ret"
      /\ ~fres.none /\ fpc' = "none")
       => failures' = 0]_vars

(***************************************************************************)
(* C36: what _ensure_driver hands to an operation.                         *)
(***************************************************************************)
\* C36: every execution context that _ensure_driver hands to an operation
\* has gone through the whole of start(): the script timeout was set and
\* the warm-up navigation was attempted (after the cookies, when there are
\* any), also when the operation before saw start() raise.
C36_HandedContextCompletedStart ==
  soutcome = "handed"
    => (sready /\ "timeout" \in Range(steps) /\ "foryou" \in Range(steps))

(***************************************************************************)
(* C37: a save after a save that found nothing.                            *)
(***************************************************************************)
\* C37: when the file of a save_*_csv run is the one an earlier run without
\* rows wrote, and the run has rows to save, the run ends without an error
\* and the file it writes holds those rows, deduplicated by key, as if the
\* file had been missing.
C37_SaveAfterEmptySave ==
  [][(pc = "ret" /\ pc' = "idle" /\ files[op].kind = "blank"
      /\ (IF op = "user_info" THEN result # <<>> ELSE SaveRows # <<>>))
       => /\ outcome' # "raised"
          /\ files'[op] # files[op]
               => files'[op] = (IF op = "user_info"
                                THEN RowsFile(MergeInfo(MissingFile, result[1]))
                                ELSE RowsFile(_deduplicate(MissingFile, RowIds(SaveRows))))]_vars

(***************************************************************************)
(* C38: search_videos ends.                                                *)
(***************************************************************************)
\* C38: search_videos makes at most count page fetches: a page is requested
\* only while fewer than count items are held, and an iteration that goes
\* back to the head of the loop has added at least one item; a failed fetch,
\* a page without extractable items and a false continuation flag end the
\* loop.
C38_SearchEndsWithinCount ==
  /\ [](op = "search_videos" => (listFetches <= count /\ listFetches <= Len(svideos) + 1))
  /\ [][(pc = "search" /\ fpc = "none" /\ fpc' = "start") => Len(svideos) < count]_vars
  /\ [][(pc = "search" /\ fpc = "ret")
          => IF fres.none \/ _extract_videos(fres) = <<>> \/ ~fres.hasMore
             THEN pc' = "sout"
             ELSE pc' = "search" /\ Len(svideos') > Len(svideos)]_vars

\* Witness of C38: a search for two items returned them after two page
\* fetches, each page adding one item.
C38_TwoPagesTwoItems ==
  /\ op = "search_videos" /\ pc = "ret" /\ count = 2
  /\ listFetches = 2 /\ Len(result) = 2

(***************************************************************************)
(* C39: the saved counter of save_tiktok_multi_page.                       *)
(***************************************************************************)
\* C39: in save_tiktok_multi_page the saved counter never exceeds count, no
\* URL is counted twice, and on return the counter equals the number of
\* distinct URLs for which save_tiktok persisted a video file or a metadata
\* row.
C39_SavedCountsPersistedUrls ==
  /\ multi.saved <= multi.count
  /\ multi.saved = Len(multi.counted) /\ NoDuplicates(multi.counted)
  /\ multi.pc = "done" => multi.saved = Cardinality(multi.persisted)

====
